---- MODULE Spec2Model ----
(***************************************************************************)
(* Supervision loop of the service supervisor go.aledante.io/as.           *)
(*                                                                         *)
(* The module models runLoop and runOnce of src/run.go: one supervised     *)
(* service is driven through Init -> Run -> Close attempts, each attempt   *)
(* is classified (err, isInternal, isPanic), and the loop decides between  *)
(* returning and restarting from the options and its grace accounting.     *)
(*                                                                         *)
(* The hosted service is the environment: what its Init, Run and Close     *)
(* return (or panic with) is chosen freely at every call.  Wall-clock time *)
(* is a clock that only moves forward; it and the call counters saturate   *)
(* at a bound above every threshold they are compared with, so every       *)
(* comparison the code makes is exact.                                     *)
(*                                                                         *)
(* A second specification, GroupSpec, models RunGroupC and                 *)
(* RunGroupAndExitC: validateServices, initOtel, one runLoop goroutine per *)
(* service under an errgroup, the deferred shutdown hook and the exit      *)
(* decision.  Each member carries the context runLoop decorated for it     *)
(* and may sleep through a restart delay.                                  *)
(*                                                                         *)
(* StructSpec models the struct-based variant (src/unnamed/part_003):      *)
(* several RunC and RunToCompletionC calls on one Service value, its       *)
(* running flag, its loop and the exit of the process.                     *)
(***************************************************************************)
EXTENDS Integers, Sequences, FiniteSets, TLC

\* ------------------------------------------------------------------------
\* Bounds of the model
\* ------------------------------------------------------------------------

\* Largest GraceCount option explored.
MaxGraceCount == 2

\* The clock saturates at MaxTime; GracePeriod ranges below it.
MaxTime == 3

\* Counters (attempts, calls, graceCount) saturate at MaxCount, which is
\* above GraceCount + 1 for every explored GraceCount.
MaxCount == MaxGraceCount + 2

\* ------------------------------------------------------------------------
\* Values
\* ------------------------------------------------------------------------

\* What a lifecycle method of the service did: returned val ("nil" is a nil
\* error) or panicked with val.
Ret(v) == [panic |-> FALSE, val |-> v]
Panic(v) == [panic |-> TRUE, val |-> v]
NoCall == [panic |-> FALSE, val |-> "none"]

PanicValues == {"boom", "bang"}

\* Init returns nil or an error, or panics.
InitReturns == {Ret("nil"), Ret("initErr")} \cup {Panic(v) : v \in PanicValues}

\* Run returns nil, an error of its own, context.Canceled or
\* context.DeadlineExceeded, or panics.
RunReturns ==
    {Ret("nil"), Ret("runErr"), Ret("canceled"), Ret("deadline")}
        \cup {Panic(v) : v \in PanicValues}

\* Close returns nil or an error, or panics.
CloseReturns == {Ret("nil"), Ret("closeErr")} \cup {Panic(v) : v \in PanicValues}

\* IsCanceled taking a deadline expiry for a cancellation too.
IsCanceled_OrDeadline(e) == e \in {"canceled", "deadline"}

\* IsCanceled recognising no error as a cancellation.
IsCanceled_Never(e) == FALSE

\* errors.Is(err, context.Canceled)
IsCanceled(e) == e = "canceled"

\* An error value of the supervisor: its message, its cause and the error
\* attached as related.
NilErr == [msg |-> "nil", cause |-> "nil", related |-> "nil"]

\* ae.Wrap(msg, cause)
Wrap(msg, cause) == [msg |-> msg, cause |-> cause, related |-> "nil"]

\* ae.NewC(ctx).Cause(errCause).Stack().Related(err).Msg("panic")
PanicErr(v, named) == [msg |-> "panic", cause |-> v, related |-> named]

\* The three results of runOnce.
Outcome(e, internal, panicked) ==
    [err |-> e, isInternal |-> internal, isPanic |-> panicked]

NoOutcome == Outcome(NilErr, FALSE, FALSE)

\* ------------------------------------------------------------------------
\* Options
\* ------------------------------------------------------------------------

Delays == {0, 1, 2}
GracePeriods == 0 .. (MaxTime - 1)
GraceCounts == 0 .. MaxGraceCount

OptionsSet ==
    [ RestartOnError      : BOOLEAN,
      RestartOnErrorDelay : Delays,
      RestartOnPanic      : BOOLEAN,
      RestartOnPanicDelay : Delays,
      RecoverPanic        : BOOLEAN,
      GracePeriod         : GracePeriods,
      GraceCount          : GraceCounts ]

\* ------------------------------------------------------------------------
\* runOnce: one attempt, step by step
\* ------------------------------------------------------------------------

\* Recovered recovering whatever RecoverPanic says.
Recovered_Always(o, v, named) ==
    [next |-> "return", out |-> Outcome(PanicErr(v, named), FALSE, TRUE)]

\* Recovered leaving isInternal set on a recovered panic.
Recovered_AsInternal(o, v, named) ==
    IF o.RecoverPanic
    THEN [next |-> "return", out |-> Outcome(PanicErr(v, named), TRUE, TRUE)]
    ELSE [next |-> "panic", out |-> NoOutcome]

\* The deferred recover of runOnce: with RecoverPanic the panic becomes the
\* attempt's error (isPanic set, isInternal left at its zero value, the
\* named err at the time of the panic attached as related); without it the
\* panic leaves runOnce.
Recovered(o, v, named) ==
    IF o.RecoverPanic
    THEN [next |-> "return", out |-> Outcome(PanicErr(v, named), FALSE, TRUE)]
    ELSE [next |-> "panic", out |-> NoOutcome]

\* AfterInit classifying an Init error as fatal.
AfterInit_Internal(o, r) ==
    IF r.panic THEN Recovered(o, r.val, "nil")
    ELSE IF r.val # "nil"
    THEN [next |-> "return",
          out |-> Outcome(Wrap("service initialization failed", r.val), TRUE, FALSE)]
    ELSE [next |-> "run", out |-> NoOutcome]

\* runOnce after svc.Init: an error ends the attempt before Run, as a plain
\* error.  The err of the if statement is local: the named err is still nil.
AfterInit(o, r) ==
    IF r.panic THEN Recovered(o, r.val, "nil")
    ELSE IF r.val # "nil"
    THEN [next |-> "return",
          out |-> Outcome(Wrap("service initialization failed", r.val), FALSE, FALSE)]
    ELSE [next |-> "run", out |-> NoOutcome]

\* AfterRun returning at once, without Close, when Run returned nil.
AfterRun_NilSkipsClose(o, r) ==
    IF r.panic THEN Recovered(o, r.val, "nil")
    ELSE IF r.val = "nil" THEN [next |-> "return", out |-> NoOutcome]
    ELSE IF ~IsCanceled(r.val)
    THEN [next |-> "return",
          out |-> Outcome(Wrap("service run failed", r.val), TRUE, FALSE)]
    ELSE [next |-> "close", out |-> NoOutcome]

\* runOnce after svc.Run: an error that is not context.Canceled ends the
\* attempt at once, marked internal; nil and context.Canceled go on to Close.
AfterRun(o, r) ==
    IF r.panic THEN Recovered(o, r.val, "nil")
    ELSE IF r.val # "nil" /\ ~IsCanceled(r.val)
    THEN [next |-> "return",
          out |-> Outcome(Wrap("service run failed", r.val), TRUE, FALSE)]
    ELSE [next |-> "close", out |-> NoOutcome]

\* CloseResult handing the error of Close to runLoop.
CloseResult_Returned(closeErr) ==
    IF closeErr = "nil"
    THEN Outcome(NilErr, FALSE, FALSE)
    ELSE Outcome(Wrap("service shutdown failed", closeErr), FALSE, FALSE)

\* What runOnce returns once Close has returned closeErr: the error is
\* logged and dropped.
CloseResult(closeErr) == Outcome(NilErr, FALSE, FALSE)

\* AfterClose with Close called outside the guarded region.
AfterClose_Unguarded(o, r, runVal) ==
    IF r.panic THEN [next |-> "panic", out |-> NoOutcome]
    ELSE [next |-> "return", out |-> CloseResult(r.val)]

\* runOnce after svc.Close.  The named err holds what Run returned when
\* Close panics.
AfterClose(o, r, runVal) ==
    IF r.panic THEN Recovered(o, r.val, runVal)
    ELSE [next |-> "return", out |-> CloseResult(r.val)]

\* ------------------------------------------------------------------------
\* runLoop: the decision after an attempt
\* ------------------------------------------------------------------------

\* A counter incremented, saturating at MaxCount.
Inc(n) == IF n < MaxCount THEN n + 1 ELSE n

\* Since measured from the current instant instead of the start.
Since_FromNow(start, t) == 0

\* time.Since(graceStart)
Since(start, t) == t - start

\* IsFatal with the RestartOnError test lost.
IsFatal_IgnoresRestartOnError(o, oc) == oc.isInternal

\* IsFatal returning every error.
IsFatal_Always(o, oc) == TRUE

\* isInternal || !opts.RestartOnError
IsFatal(o, oc) == oc.isInternal \/ ~o.RestartOnError

\* GracePeriodExceeded comparing with >= instead of >.
GracePeriodExceeded_AtLimit(o, elapsed) ==
    o.GracePeriod > 0 /\ elapsed >= o.GracePeriod

\* opts.GracePeriod > 0 && time.Since(graceStart) > opts.GracePeriod
GracePeriodExceeded(o, elapsed) == o.GracePeriod > 0 /\ elapsed > o.GracePeriod

\* GraceCountExceeded comparing with >= instead of >.
GraceCountExceeded_AtLimit(o, gc) == o.GraceCount > 0 /\ gc >= o.GraceCount

\* GraceCountExceeded with zero read as a limit of zero restarts.
GraceCountExceeded_ZeroIsLimit(o, gc) == gc > o.GraceCount

\* opts.GraceCount > 0 && graceCount > opts.GraceCount
GraceCountExceeded(o, gc) == o.GraceCount > 0 /\ gc > o.GraceCount

\* PanicTerminates with the RestartOnPanic switch never consulted.
PanicTerminates_Never(o, oc) == FALSE

\* PanicTerminates ending the loop on every panic.
PanicTerminates_Always(o, oc) == oc.isPanic

\* isPanic && !opts.RestartOnPanic
PanicTerminates(o, oc) == oc.isPanic /\ ~o.RestartOnPanic

\* RestartDelay never reading the panic delay.
RestartDelay_ErrorOnly(o, oc) == o.RestartOnErrorDelay

\* The delay before the restart.
RestartDelay(o, oc) ==
    IF oc.isPanic /\ o.RestartOnPanicDelay > 0
    THEN o.RestartOnPanicDelay
    ELSE o.RestartOnErrorDelay

\* LoopDecision incrementing graceCount before the fatal test.
LoopDecision_CountsFatal(o, gc, elapsed, oc) ==
    IF oc.err = NilErr
    THEN [ret |-> TRUE, err |-> NilErr, gc |-> gc, delay |-> 0, why |-> "success"]
    ELSE IF IsFatal(o, oc)
    THEN [ret |-> TRUE, err |-> oc.err, gc |-> Inc(gc), delay |-> 0, why |-> "fatal"]
    ELSE IF GracePeriodExceeded(o, elapsed)
    THEN [ret |-> TRUE, err |-> oc.err, gc |-> Inc(gc), delay |-> 0,
          why |-> "grace period"]
    ELSE IF GraceCountExceeded(o, Inc(gc))
    THEN [ret |-> TRUE, err |-> oc.err, gc |-> Inc(gc), delay |-> 0,
          why |-> "grace count"]
    ELSE IF PanicTerminates(o, oc)
    THEN [ret |-> TRUE, err |-> oc.err, gc |-> Inc(gc), delay |-> 0,
          why |-> "panic"]
    ELSE [ret |-> FALSE, err |-> oc.err, gc |-> Inc(gc),
          delay |-> RestartDelay(o, oc), why |-> "restart"]

\* One pass of the loop body after runOnce returned oc, with graceCount gc
\* and elapsed time since graceStart: whether runLoop returns (and what), or
\* restarts after delay; gc is graceCount afterwards and why names the
\* branch taken.
LoopDecision(o, gc, elapsed, oc) ==
    IF oc.err = NilErr
    THEN [ret |-> TRUE, err |-> NilErr, gc |-> gc, delay |-> 0, why |-> "success"]
    ELSE IF IsFatal(o, oc)
    THEN [ret |-> TRUE, err |-> oc.err, gc |-> gc, delay |-> 0, why |-> "fatal"]
    ELSE IF GracePeriodExceeded(o, elapsed)
    THEN [ret |-> TRUE, err |-> oc.err, gc |-> Inc(gc), delay |-> 0,
          why |-> "grace period"]
    ELSE IF GraceCountExceeded(o, Inc(gc))
    THEN [ret |-> TRUE, err |-> oc.err, gc |-> Inc(gc), delay |-> 0,
          why |-> "grace count"]
    ELSE IF PanicTerminates(o, oc)
    THEN [ret |-> TRUE, err |-> oc.err, gc |-> Inc(gc), delay |-> 0,
          why |-> "panic"]
    ELSE [ret |-> FALSE, err |-> oc.err, gc |-> Inc(gc),
          delay |-> RestartDelay(o, oc), why |-> "restart"]

\* ------------------------------------------------------------------------
\* State
\* ------------------------------------------------------------------------

VARIABLES
    opts,        \* the Options snapshot of this runLoop call
    pc,          \* where runLoop is: init, run, close, decide, sleep, done, panicked
    now,         \* wall-clock time
    graceStart,  \* runLoop's graceStart
    graceCount,  \* runLoop's graceCount
    att,         \* what Init, Run and Close did in the current attempt
    out,         \* what runOnce returned for the current attempt
    delay,       \* the restart delay runLoop is sleeping for
    why,         \* the branch of the last pass of the loop body
    result,      \* what runLoop returned
    stats        \* counters over the whole runLoop call

\* State of one RunGroupC call (RunGroupAndExitC included).
VARIABLES
    svcs,        \* the services passed in, as (name, namespace) identities
    parentCtx,   \* what the context passed in carries
    osEnviron,   \* the option variables set in the process environment
    gpc,         \* where the call is: idle, start, waiting, returned, crashed, finished
    mem,         \* the runLoop goroutine of every service
    parentDone,  \* the caller's context is canceled
    groupDone,   \* the errgroup's cancel function has been called
    gerr,        \* the error the errgroup has recorded
    order,       \* the goroutines in the order they returned
    verrs,       \* the entries validateServices collected
    otel,        \* initOtel: none (not called), ok, failed
    shutdowns,   \* calls of the shutdown hook
    hookErr,     \* what the shutdown hook returned
    gresult,     \* what RunGroupC returned
    anyCall,     \* a lifecycle method of some service has been called
    printed,     \* ae.Print has been called
    exited       \* ae.Exit has been called

gvars == <<svcs, parentCtx, osEnviron, gpc, mem, parentDone, groupDone, gerr, order, verrs, otel,
           shutdowns, hookErr, gresult, anyCall, printed, exited>>

\* State of one call of an environment helper.
VARIABLES
    ein,         \* the arguments of the call and the process environment
    eout,        \* what the helpers returned
    edone        \* the helpers that have returned

evars == <<ein, eout, edone>>

\* State of one Service value of the struct-based variant and the RunC
\* calls made on it.
VARIABLES
    service,     \* Name and Version of the Service value
    running,     \* its running flag
    calls,       \* the RunC calls on it, by caller
    entered      \* the callers in the order they swapped the running flag

svars == <<service, running, calls, entered>>

vars == <<opts, pc, now, graceStart, graceCount, att, out, delay, why, result, stats,
          svcs, gpc, mem, parentDone, groupDone, gerr, order, verrs, otel,
          shutdowns, hookErr, gresult, anyCall, printed, exited, parentCtx,
          osEnviron,
          ein, eout, edone, service, running, calls, entered>>

\* No environment helper is being called.
NoEnvIn ==
    [op |-> "none", key |-> <<>>, name |-> <<>>, namespace |-> <<>>,
     EnvPrefix |-> <<>>, DisableEnvPrefix |-> FALSE, RestartOnError |-> TRUE,
     optEnviron |-> {}, prefix |-> <<>>, environ |-> {}]

NoEnvOut ==
    [val |-> <<>>, ctx |-> <<>>, restartOnError |-> TRUE, get |-> <<>>,
     look |-> [val |-> <<>>, ok |-> FALSE]]

EnvFresh == eout = NoEnvOut /\ edone = {}

\* No Service value of the struct-based variant is in use.
StructFresh ==
    /\ service = [Name |-> "", Version |-> ""]
    /\ running = FALSE
    /\ calls = <<>>
    /\ entered = <<>>

\* What Name(ctx), Namespace(ctx) and EnvPrefix(ctx) read from a context.
\* A context that carries none of them reads as empty strings.
EmptyCtx == [name |-> "", namespace |-> "", envPrefix |-> <<>>]

\* No RunGroupC call has collected or started anything.
GroupFresh ==
    /\ mem = <<>>
    /\ parentDone = FALSE
    /\ groupDone = FALSE
    /\ gerr = NilErr
    /\ order = <<>>
    /\ verrs = <<>>
    /\ otel = "none"
    /\ shutdowns = 0
    /\ hookErr = "none"
    /\ gresult = NilErr
    /\ anyCall = FALSE
    /\ printed = FALSE
    /\ exited = FALSE

NoAttempt == [init |-> NoCall, run |-> NoCall, close |-> NoCall]

NoStats ==
    [attempts |-> 1, initCalls |-> 0, runCalls |-> 0, closeCalls |-> 0,
     initErrs |-> 0, runErrs |-> 0, panics |-> 0]

Bump(s, f) == [s EXCEPT ![f] = Inc(@)]

\* runLoop has set graceStart and graceCount and is about to call runOnce
\* for the first time.
Init ==
    /\ opts \in OptionsSet
    /\ pc = "init"
    /\ now = 0
    /\ graceStart = 0
    /\ graceCount = 0
    /\ att = NoAttempt
    /\ out = NoOutcome
    /\ delay = 0
    /\ why = "start"
    /\ result = NilErr
    /\ stats = NoStats
    /\ svcs = <<>>
    /\ parentCtx = EmptyCtx
    /\ osEnviron = {}
    /\ gpc = "idle"
    /\ GroupFresh
    /\ ein = NoEnvIn
    /\ EnvFresh
    /\ StructFresh

\* The step of runOnce that follows a lifecycle call.
Step(a) ==
    /\ pc' = (IF a.next = "return" THEN "decide"
              ELSE IF a.next = "panic" THEN "panicked" ELSE a.next)
    /\ out' = a.out

\* runOnce calls svc.Init.
DoInit ==
    /\ pc = "init"
    /\ \E r \in InitReturns :
        /\ att' = [att EXCEPT !.init = r]
        /\ Step(AfterInit(opts, r))
        /\ stats' = LET s == Bump(stats, "initCalls") IN
                    IF r.panic THEN Bump(s, "panics")
                    ELSE IF r.val # "nil" THEN Bump(s, "initErrs") ELSE s
    /\ UNCHANGED <<opts, now, graceStart, graceCount, delay, why, result>>
    /\ UNCHANGED gvars
    /\ UNCHANGED evars
    /\ UNCHANGED svars

\* runOnce calls svc.Run.
DoRun ==
    /\ pc = "run"
    /\ \E r \in RunReturns :
        /\ att' = [att EXCEPT !.run = r]
        /\ Step(AfterRun(opts, r))
        /\ stats' = LET s == Bump(stats, "runCalls") IN
                    IF r.panic THEN Bump(s, "panics")
                    ELSE IF r.val = "runErr" THEN Bump(s, "runErrs") ELSE s
    /\ UNCHANGED <<opts, now, graceStart, graceCount, delay, why, result>>
    /\ UNCHANGED gvars
    /\ UNCHANGED evars
    /\ UNCHANGED svars

\* runOnce calls svc.Close.
DoClose ==
    /\ pc = "close"
    /\ \E r \in CloseReturns :
        /\ att' = [att EXCEPT !.close = r]
        /\ Step(AfterClose(opts, r, att.run.val))
        /\ stats' = LET s == Bump(stats, "closeCalls") IN
                    IF r.panic THEN Bump(s, "panics") ELSE s
    /\ UNCHANGED <<opts, now, graceStart, graceCount, delay, why, result>>
    /\ UNCHANGED gvars
    /\ UNCHANGED evars
    /\ UNCHANGED svars

\* runLoop starts the next attempt.
NextAttempt ==
    /\ att' = NoAttempt
    /\ out' = NoOutcome
    /\ stats' = Bump(stats, "attempts")

\* runOnce has returned: the body of the loop up to its return, its sleep or
\* its next iteration.
Decide ==
    /\ pc = "decide"
    /\ LET d == LoopDecision(opts, graceCount, Since(graceStart, now), out) IN
        /\ graceCount' = d.gc
        /\ why' = d.why
        /\ IF d.ret
           THEN /\ pc' = "done"
                /\ result' = d.err
                /\ UNCHANGED <<att, out, stats, delay>>
           ELSE IF d.delay > 0
           THEN /\ pc' = "sleep"
                /\ delay' = d.delay
                /\ UNCHANGED <<att, out, stats, result>>
           ELSE /\ pc' = "init"
                /\ NextAttempt
                /\ UNCHANGED <<delay, result>>
    /\ UNCHANGED <<opts, now, graceStart>>
    /\ UNCHANGED gvars
    /\ UNCHANGED evars
    /\ UNCHANGED svars

\* time.Sleep(restartDelay) returns: at least the delay has passed.
Sleep ==
    /\ pc = "sleep"
    /\ now' = (IF now + delay < MaxTime THEN now + delay ELSE MaxTime)
    /\ pc' = "init"
    /\ delay' = 0
    /\ NextAttempt
    /\ UNCHANGED <<opts, graceStart, graceCount, why, result>>
    /\ UNCHANGED gvars
    /\ UNCHANGED evars
    /\ UNCHANGED svars

\* Time passes while the service is in a lifecycle call or the loop sleeps.
Tick ==
    /\ pc \in {"init", "run", "close", "sleep"}
    /\ now < MaxTime
    /\ now' = now + 1
    /\ UNCHANGED <<opts, pc, graceStart, graceCount, att, out, delay, why, result, stats>>
    /\ UNCHANGED gvars
    /\ UNCHANGED evars
    /\ UNCHANGED svars

Next == DoInit \/ DoRun \/ DoClose \/ Decide \/ Sleep \/ Tick

Spec == Init /\ [][Next]_vars

\* ------------------------------------------------------------------------
\* A failing service under a grace period, with time advancing
\* ------------------------------------------------------------------------

\* runLoop called with restarts enabled, a grace period and no grace count.
GracePeriodInit ==
    /\ Init
    /\ opts.RestartOnError
    /\ opts.GracePeriod > 0
    /\ opts.GraceCount = 0

\* The loop's goroutine keeps running and every lifecycle call returns.
LoopStep == DoInit \/ DoRun \/ DoClose \/ Decide \/ Sleep

\* The clock keeps advancing (up to where it saturates), however fast the
\* attempts follow each other, and the loop keeps taking steps.
GracePeriodSpec ==
    GracePeriodInit /\ [][Next]_vars /\ SF_vars(Tick) /\ WF_vars(LoopStep)

TypeOK ==
    /\ opts \in OptionsSet
    /\ pc \in {"init", "run", "close", "decide", "sleep", "done", "panicked"}
    /\ now \in 0 .. MaxTime
    /\ graceCount \in 0 .. MaxCount
    /\ delay \in Delays

\* ------------------------------------------------------------------------
\* Vocabulary of the properties
\* ------------------------------------------------------------------------

\* Time since the loop's first attempt began (the clock starts at 0 there).
Elapsed == now

\* What the current attempt was, read off the calls it made.
InitFailed == ~att.init.panic /\ att.init.val = "initErr"
RunFailed == ~att.run.panic /\ att.run.val \in {"runErr", "deadline"}
RunErrored == ~att.run.panic /\ att.run.val = "runErr"
RunEndedCleanly == ~att.run.panic /\ att.run.val \in {"nil", "canceled"}
CloseReturned == ~att.close.panic /\ att.close.val \in {"nil", "closeErr"}
AttemptPanicked == att.init.panic \/ att.run.panic \/ att.close.panic
AttemptFailed == InitFailed \/ RunFailed \/ AttemptPanicked

\* The value the attempt panicked with.
PanicValue ==
    IF att.init.panic THEN att.init.val
    ELSE IF att.run.panic THEN att.run.val ELSE att.close.val

\* The error a failed attempt is expected to hand to runLoop: the wrapped
\* Init or Run error, or a panic error carrying the panic value.
IsAttemptError(e) ==
    \/ InitFailed /\ e.msg = "service initialization failed" /\ e.cause = att.init.val
    \/ RunFailed /\ e.msg = "service run failed" /\ e.cause = att.run.val
    \/ AttemptPanicked /\ e.msg = "panic" /\ e.cause = PanicValue

\* Neither grace budget is exhausted by the failure being handled.
PeriodLeft == opts.GracePeriod = 0 \/ Elapsed <= opts.GracePeriod
CountLeft == opts.GraceCount = 0 \/ graceCount + 1 <= opts.GraceCount

\* runLoop goes on to another attempt.
Restarts == pc' \in {"sleep", "init"}

\* ------------------------------------------------------------------------
\* Properties
\* ------------------------------------------------------------------------

\* C1: with RestartOnError=false a failed attempt (Init error, Run error or
\* recovered panic) ends the loop: there is never a second attempt or a
\* second Init call, the loop never sleeps, and runLoop returns the error of
\* that one attempt.
C1_NoRestartWhenDisabled ==
    ~opts.RestartOnError =>
        /\ stats.attempts = 1
        /\ stats.initCalls <= 1
        /\ pc # "sleep"
        /\ (pc = "done" /\ AttemptFailed => IsAttemptError(result))

C1_Witness ==
    /\ ~opts.RestartOnError
    /\ pc = "done"
    /\ AttemptPanicked
    /\ result.msg = "panic"

\* C2: with GraceCount=N>0, RestartOnError=true and the grace period not
\* exceeded, a service whose Run fails with a non-cancellation error on every
\* attempt has been attempted exactly N+1 times when runLoop returns, and
\* the return is the grace-count one.
C2_RunFailuresExhaustGraceCount ==
    ( /\ pc = "done"
      /\ opts.RestartOnError
      /\ opts.GraceCount > 0
      /\ PeriodLeft
      /\ stats.runErrs = stats.attempts )
    => /\ stats.attempts = opts.GraceCount + 1
       /\ why = "grace count"

\* C3: with GraceCount=N>0, RestartOnError=true and the grace period never
\* exceeded, a service whose Init fails on every attempt sees at most N+1
\* Init calls; runLoop returns after exactly N+1 of them, with the last
\* attempt's initialization error, on the grace-count branch.
C3_InitFailuresGetNRestarts ==
    ( /\ opts.RestartOnError
      /\ opts.GraceCount > 0
      /\ stats.initErrs = stats.initCalls )
    => /\ stats.initCalls <= opts.GraceCount + 1
       /\ (pc = "done" /\ PeriodLeft =>
              /\ stats.initCalls = opts.GraceCount + 1
              /\ stats.attempts = opts.GraceCount + 1
              /\ IsAttemptError(result)
              /\ result.msg = "service initialization failed"
              /\ why = "grace count")

C3_Witness ==
    /\ pc = "done"
    /\ opts.RestartOnError
    /\ opts.GraceCount = MaxGraceCount
    /\ stats.initErrs = MaxGraceCount + 1
    /\ stats.initCalls = MaxGraceCount + 1
    /\ why = "grace count"

\* C4: with a grace period D>0, restarts enabled and no grace count, while
\* time keeps advancing the loop always comes to an end; a failure handled
\* once the time since the first attempt exceeds D ends it at that pass with
\* a non-nil error, and a loop whose last attempt failed returns non-nil.
C4_GracePeriodEndsFailingService ==
    /\ <>(pc \in {"done", "panicked"})
    /\ [][ (pc = "decide" /\ AttemptFailed /\ Elapsed > opts.GracePeriod)
             => (pc' = "done" /\ result' # NilErr) ]_vars
    /\ [](pc = "done" /\ AttemptFailed => result # NilErr)

C4_Witness ==
    /\ pc = "done"
    /\ why = "grace period"
    /\ stats.attempts >= 3
    /\ stats.initErrs = stats.attempts
    /\ result # NilErr

\* C5: the grace period runs from the start of the first attempt and is
\* never restarted.  A failed attempt handled when the time since then is
\* strictly above GracePeriod>0 ends the loop with its error, the first
\* failure included; an Init error or recovered panic handled at or below
\* it, with count budget left and restart enabled, leads to a new attempt.
C5_GracePeriodFromFirstAttempt ==
    [][ /\ graceStart' = graceStart
        /\ (pc = "decide" /\ AttemptFailed)
             => /\ (opts.GracePeriod > 0 /\ Elapsed > opts.GracePeriod)
                     => (pc' = "done" /\ result' = out.err /\ IsAttemptError(result'))
                /\ ( /\ InitFailed \/ AttemptPanicked
                     /\ PeriodLeft
                     /\ CountLeft
                     /\ opts.RestartOnError
                     /\ AttemptPanicked => opts.RestartOnPanic )
                     => Restarts ]_vars

C5_Witness ==
    /\ pc = "done"
    /\ why = "grace period"
    /\ stats.attempts = 1
    /\ InitFailed
    /\ graceCount = 1

\* C6: with RecoverPanic=true, RestartOnError=true and RestartOnPanic=false,
\* a panic raised in Run is recovered (it does not leave runLoop) and the
\* loop returns at the pass that handles it, whatever the grace budgets,
\* with a panic error that carries the panic value; no attempt follows.
C6_PanicEndsLoopWhenRestartOnPanicOff ==
    [][ ( /\ opts.RecoverPanic
          /\ opts.RestartOnError
          /\ ~opts.RestartOnPanic
          /\ att.run.panic )
        => /\ pc \in {"decide", "done"}
           /\ pc = "decide"
                => /\ pc' = "done"
                   /\ result'.msg = "panic"
                   /\ result'.cause = att.run.val
                   /\ stats' = stats ]_vars

C6_Witness ==
    /\ pc = "done"
    /\ opts.RecoverPanic /\ opts.RestartOnError /\ ~opts.RestartOnPanic
    /\ att.run = Panic("boom")
    /\ stats.attempts = 2
    /\ why = "panic"
    /\ result.cause = "boom"

\* C7 as stated: with RecoverPanic=true and RestartOnPanic=true, a recovered
\* panic handled with neither grace budget exhausted is followed by another
\* attempt, whatever the other options are.
C7_PanicRestartsWhateverRestartOnError ==
    [][ ( /\ pc = "decide"
          /\ opts.RecoverPanic
          /\ opts.RestartOnPanic
          /\ AttemptPanicked
          /\ PeriodLeft
          /\ CountLeft )
        => Restarts ]_vars

\* C7, amended: with RecoverPanic=true, RestartOnPanic=true and
\* RestartOnError=true, a recovered panic handled with neither grace budget
\* exhausted is followed by another attempt, whatever the delays are.
C7_PanicRestartsWhenRestartOnErrorOn ==
    [][ ( /\ pc = "decide"
          /\ opts.RecoverPanic
          /\ opts.RestartOnPanic
          /\ opts.RestartOnError
          /\ AttemptPanicked
          /\ PeriodLeft
          /\ CountLeft )
        => Restarts ]_vars

C7_Witness ==
    /\ pc = "init"
    /\ opts.RecoverPanic /\ opts.RestartOnPanic /\ opts.RestartOnError
    /\ stats.panics = 2
    /\ stats.attempts = 3
    /\ graceCount = 2

\* C8: with RestartOnError=true and both grace budgets unexhausted, an
\* attempt whose Run returned a non-cancellation error is followed by a
\* restart.
C8_RunErrorRestarts ==
    [][ ( /\ pc = "decide"
          /\ opts.RestartOnError
          /\ RunErrored
          /\ PeriodLeft
          /\ CountLeft )
        => Restarts ]_vars

\* C9: an attempt in which Init succeeded has called Close once by the time
\* it ends, whatever Run did.
C9_CloseCalledWheneverInitSucceeded ==
    (pc \in {"decide", "sleep", "done"} /\ att.init = Ret("nil"))
        => att.close # NoCall

\* C10: an error returned by Close is not the attempt's result and does not
\* reach the restart decision: when Run ended cleanly and Close returned
\* (nil or an error), runOnce yields a nil error, and runLoop returns nil at
\* that pass with graceCount and all counters as they were.
C10_CloseErrorNeverEscalates ==
    [][ (pc = "decide" /\ RunEndedCleanly /\ CloseReturned)
        => /\ out = NoOutcome
           /\ pc' = "done"
           /\ result' = NilErr
           /\ graceCount' = graceCount
           /\ stats' = stats ]_vars

C10_Witness ==
    /\ pc = "done"
    /\ att.close = Ret("closeErr")
    /\ result = NilErr
    /\ why = "success"

\* C11: cancellation is not a failure.  When Run returns the context's
\* cancellation error the attempt goes on to Close, and once Close has
\* returned runLoop returns nil at that pass, without restart and with
\* graceCount and the counters untouched, whatever the options are.
C11_CancellationIsCleanStop ==
    [][ /\ (pc = "run" /\ att'.run = Ret("canceled")) => pc' = "close"
        /\ (pc = "decide" /\ att.run = Ret("canceled"))
             => /\ att.close # NoCall
                /\ CloseReturned
                     => /\ out = NoOutcome
                        /\ pc' = "done"
                        /\ result' = NilErr
                        /\ graceCount' = graceCount
                        /\ stats' = stats ]_vars

C11_Witness ==
    /\ pc = "done"
    /\ att.run = Ret("canceled")
    /\ att.close = Ret("nil")
    /\ opts.RestartOnError /\ opts.RestartOnPanic
    /\ stats.attempts = 2
    /\ result = NilErr

\* Close has been called in the current attempt and has returned.
CloseHasReturned == att.close # NoCall /\ ~att.close.panic

\* C18 as stated: within one service the attempts never overlap (Init is
\* called only in an attempt that has made no call yet, Run only after that
\* attempt's Init returned nil, Close only after its Run returned), and the
\* next attempt begins only after the Close of the attempt before it has
\* returned.
C18_NextAttemptAfterCloseReturned ==
    [][ /\ (pc = "init" /\ pc' # "init") => (att = NoAttempt /\ att'.init # NoCall)
        /\ (pc = "run" /\ pc' # "run")
             => (att.init = Ret("nil") /\ att.run = NoCall /\ att.close = NoCall)
        /\ (pc = "close" /\ pc' # "close") => (RunEndedCleanly /\ att.close = NoCall)
        /\ (pc # "init" /\ pc' = "init")
             => (pc \in {"decide", "sleep"} /\ CloseHasReturned /\ att' = NoAttempt) ]_vars

\* ------------------------------------------------------------------------
\* Environment keys: NormalizeEnvKey and applyOptions
\* ------------------------------------------------------------------------

\* A string is the sequence of its characters.  "e+acute" and "E+acute" are
\* the precomposed accented letters U+00E9 and U+00C9, "acute" is the
\* combining mark U+0301, "o/" is U+00F8, a letter outside ASCII that has
\* no decomposition.

\* Longest enumerated input string.
MaxLen == 3

\* The characters of the enumerated input strings.
EnvChars == {"e", "K", "7", "-", "_", "e+acute", "acute"}

\* norm.NFD on one character.
NFDChar(c) ==
    IF c = "e+acute" THEN <<"e", "acute">>
    ELSE IF c = "E+acute" THEN <<"E", "acute">>
    ELSE <<c>>

RECURSIVE NFD(_)
\* norm.NFD.String(name)
NFD(name) == IF name = <<>> THEN <<>> ELSE NFDChar(Head(name)) \o NFD(Tail(name))

\* IsMn treating no character as a combining mark.
IsMn_Never(r) == FALSE

\* unicode.In(r, unicode.Mn)
IsMn(r) == r = "acute"

LowerLetters == {"a", "b", "c", "e", "k", "m", "n", "v", "y"}
UpperLetters == {"A", "B", "C", "E", "K", "M", "N", "V", "Y"}
AsciiDigits == {"7"}

\* (r >= 'A' && r <= 'Z') || (r >= 'a' && r <= 'z') || (r >= '0' && r <= '9')
IsAsciiAlnum(r) == r \in LowerLetters \cup UpperLetters \cup AsciiDigits

\* unicode.ToUpper(r)
ToUpper(r) ==
    CASE r = "a" -> "A" [] r = "b" -> "B" [] r = "c" -> "C"
      [] r = "e" -> "E" [] r = "k" -> "K" [] r = "m" -> "M"
      [] r = "n" -> "N" [] r = "v" -> "V" [] r = "y" -> "Y"
      [] OTHER -> r

RECURSIVE NormalizeFrom(_, _, _)
\* The loop of NormalizeEnvKey from character i on, with out built so far.
NormalizeFrom(name, i, outRunes) ==
    IF i > Len(name) THEN outRunes
    ELSE IF IsMn(name[i]) THEN NormalizeFrom(name, i + 1, outRunes)
    ELSE IF IsAsciiAlnum(name[i])
    THEN NormalizeFrom(name, i + 1, Append(outRunes, ToUpper(name[i])))
    ELSE IF Len(outRunes) > 0 /\ outRunes[Len(outRunes)] = "_"
    THEN NormalizeFrom(name, i + 1, outRunes)
    ELSE NormalizeFrom(name, i + 1, Append(outRunes, "_"))

RECURSIVE TrimLeft(_, _)
TrimLeft(str, c) ==
    IF str # <<>> /\ Head(str) = c THEN TrimLeft(Tail(str), c) ELSE str

RECURSIVE TrimRight(_, _)
TrimRight(str, c) ==
    IF str # <<>> /\ str[Len(str)] = c
    THEN TrimRight(SubSeq(str, 1, Len(str) - 1), c) ELSE str

\* strings.Trim(s, "_")
Trim(str, c) == TrimRight(TrimLeft(str, c), c)

\* NormalizeEnvKey(name)
NormalizeEnvKey(name) == Trim(NormalizeFrom(NFD(name), 1, <<>>), "_")

\* The env tag of every Options field the supervisor reads.
OptionTags ==
    [RestartOnError      |-> "RESTART_ON_ERROR",
     RestartOnErrorDelay |-> "RESTART_ON_ERROR_DELAY",
     RestartOnPanic      |-> "RESTART_ON_PANIC",
     RestartOnPanicDelay |-> "RESTART_ON_PANIC_DELAY",
     RecoverPanic        |-> "RECOVER_PANIC",
     GracePeriod         |-> "GRACE_PERIOD",
     GraceCount          |-> "GRACE_COUNT"]

\* The option variables of a process environment: the variable named
\* prefix + tag holds val.  A variable has one value.
OptionVar(prefix, tag, val) == [prefix |-> prefix, tag |-> tag, val |-> val]

\* The prefix applyOptions resolves from the service's name and namespace
\* and the EnvPrefix and DisableEnvPrefix left by the Option funcs.
ResolveEnvPrefix(name, namespace, o) ==
    LET envPrefix ==
            IF o.DisableEnvPrefix THEN <<>>
            ELSE IF o.EnvPrefix # <<>> THEN o.EnvPrefix
            ELSE (IF namespace # <<>> THEN namespace \o <<"_">> ELSE <<>>)
                     \o name \o <<"_">>
    IN IF envPrefix # <<>>
       THEN NormalizeEnvKey(envPrefix) \o <<"_">>
       ELSE o.EnvPrefix

\* env.ParseWithOptions(&o, env.Options{Prefix: prefix}): every tagged field
\* whose variable prefix + tag is set takes the variable's value; EnvPrefix
\* and DisableEnvPrefix carry no tag.
ParseWithOptions(o, environ, prefix) ==
    [f \in DOMAIN o |->
        IF f \in DOMAIN OptionTags
           /\ \E e \in environ : e.prefix = prefix /\ e.tag = OptionTags[f]
        THEN (CHOOSE e \in environ : e.prefix = prefix /\ e.tag = OptionTags[f]).val
        ELSE o[f]]

\* applyOptions(name, namespace, opts), o being DefaultOptions after the
\* Option funcs: the prefix is resolved, then the environment is overlaid.
applyOptions(name, namespace, o, environ) ==
    LET prefix == ResolveEnvPrefix(name, namespace, o) IN
    ParseWithOptions([o EXCEPT !.EnvPrefix = prefix], environ, prefix)

\* EnvPrefix(withEnvPrefix(ctx, prefix)): what the service reads back from
\* the context runLoop gave it.
EnvPrefix(prefix) == prefix

\* ------------------------------------------------------------------------
\* RunGroupC and RunGroupAndExitC: a group of services
\* ------------------------------------------------------------------------

\* Longest list of services explored.
MaxServices == 3

\* Name() and Namespace() of a service; "" is the empty string.
Names == {"a", "c", ""}
Namespaces == {"b", ""}
Identities == [name : Names, namespace : Namespaces]

RECURSIVE SeqsUpTo(_, _)
\* The sequences over S of length at most n.
SeqsUpTo(S, n) ==
    IF n = 0 THEN {<<>>}
    ELSE LET shorter == SeqsUpTo(S, n - 1) IN
         shorter \cup {Append(q, x) : q \in {t \in shorter : Len(t) = n - 1}, x \in S}

\* The options of the group: every service gets the same ones.  A restart
\* is allowed once, so every loop returns after at most two failed attempts;
\* after an error it is immediate or delayed.
GroupOptionsSet ==
    {o \in OptionsSet :
        /\ o.RestartOnErrorDelay \in {0, 1}
        /\ o.RestartOnPanicDelay = 0
        /\ o.RestartOnPanic
        /\ o.GracePeriod = 0
        /\ o.GraceCount = 1}

\* IsDuplicate finding no identity in the map.
IsDuplicate_Never(ident, identities) == FALSE

\* _, ok := identities[ident]
IsDuplicate(ident, identities) == ident \in identities

\* Collect keeping only the first entry ever found.
Collect_FirstOnly(errs, new) ==
    IF errs # <<>> THEN errs
    ELSE IF new = <<>> THEN new ELSE <<new[1]>>

\* errs = append(errs, ...)
Collect(errs, new) == errs \o new

\* The entries for a service that is not a duplicate.
EmptyFieldErrs(ident) ==
    (IF ident.name = "" THEN <<"service name cannot be empty">> ELSE <<>>)
        \o (IF ident.namespace = ""
            THEN <<"service namespace cannot be empty">> ELSE <<>>)

RECURSIVE ValidateFrom(_, _, _, _)
\* The loop of validateServices from service i on: a duplicate gets its
\* entry and nothing else (continue); any other service is added to the map
\* and gets an entry per empty field.
ValidateFrom(s, i, identities, errs) ==
    IF i > Len(s) THEN errs
    ELSE IF IsDuplicate(s[i], identities)
    THEN ValidateFrom(s, i + 1, identities,
                      Collect(errs, <<"duplicate service identity">>))
    ELSE ValidateFrom(s, i + 1, identities \cup {s[i]},
                      Collect(errs, EmptyFieldErrs(s[i])))

\* ae.WrapMany(msg, errs...): nil when there is nothing to wrap.
WrapMany(msg, errs) ==
    IF errs = <<>> THEN NilErr
    ELSE [msg |-> msg, cause |-> "many", related |-> "nil"]

\* validateServices: the aggregate error and the entries it wraps.
validateServices(s) ==
    LET errs == ValidateFrom(s, 1, {}, <<>>) IN
    [err |-> WrapMany(IF Len(s) > 1 THEN "invalid service group"
                      ELSE "invalid service", errs),
     errs |-> errs]

\* The contexts a caller passes in: a plain one, and the context of a
\* service that is itself supervised.
ParentCtxs ==
    {EmptyCtx, [name |-> "outer", namespace |-> "outerns", envPrefix |-> <<"K", "_">>]}

\* withName(ctx, name)
withName(ctx, name) == IF name = "" THEN ctx ELSE [ctx EXCEPT !.name = name]

\* withNamespace(ctx, namespace)
withNamespace(ctx, namespace) ==
    IF namespace = "" THEN ctx ELSE [ctx EXCEPT !.namespace = namespace]

\* withEnvPrefix(ctx, prefix)
withEnvPrefix(ctx, prefix) == [ctx EXCEPT !.envPrefix = prefix]

\* Name(ctx) and Namespace(ctx)
Name(ctx) == ctx.name
Namespace(ctx) == ctx.namespace

\* The characters of a name or namespace of the group.
Chars(str) == IF str = "" THEN <<>> ELSE <<str>>

\* EnvPrefix and DisableEnvPrefix of DefaultOptions.
DefaultEnvOptions == [EnvPrefix |-> <<>>, DisableEnvPrefix |-> FALSE]

\* The process environments of the group: RESTART_ON_ERROR may be set under
\* the prefix of one service or the other.
GroupEnvirons ==
    SUBSET {OptionVar(<<"B", "_", "A", "_">>, "RESTART_ON_ERROR", FALSE),
            OptionVar(<<"B", "_", "C", "_">>, "RESTART_ON_ERROR", TRUE)}

\* The Options after the Option funcs of the group: o, with the EnvPrefix
\* and DisableEnvPrefix of DefaultOptions.
AfterOptionFuncs(o) ==
    [f \in DOMAIN o \cup DOMAIN DefaultEnvOptions |->
        IF f \in DOMAIN o THEN o[f] ELSE DefaultEnvOptions[f]]

\* runLoop's context for svc, built before the loop from the context it was
\* given and the options o that applyOptions resolved for svc.
Decorate(ctx, svc, o) ==
    withEnvPrefix(withNamespace(withName(ctx, svc.name), svc.namespace), o.EnvPrefix)

\* What a lifecycle call given ctx can read from it.
Observed(ctx) ==
    [name |-> Name(ctx), namespace |-> Namespace(ctx),
     envPrefix |-> EnvPrefix(ctx.envPrefix)]

\* MemberService handing every goroutine the last service of the list.
MemberService_Last(s, i) == s[Len(s)]

\* The svc the i-th goroutine's closure holds: the loop variable of its own
\* iteration.
MemberService(s, i) == s[i]

\* The goroutine started for the i-th service: the options applyOptions
\* resolves for it from o and the environment, and runLoop's context.
StartMember(s, i, ctx, o, environ) ==
    LET svc == MemberService(s, i)
        resolved == applyOptions(Chars(svc.name), Chars(svc.namespace),
                                 AfterOptionFuncs(o), environ)
    IN [pc |-> "init", run |-> "none", out |-> NoOutcome, gc |-> 0, res |-> NilErr,
        opts |-> resolved, ctx |-> Decorate(ctx, svc, resolved), seen |-> {}]

\* IsEmptyGroup taking no list for empty.
IsEmptyGroup_Never(s) == FALSE

\* len(svcs) == 0
IsEmptyGroup(s) == Len(s) = 0

\* Scheduled holding every goroutine back while a sibling sleeps.
Scheduled_NoSiblingAsleep(alive, m, i) ==
    alive /\ \A j \in DOMAIN m : j # i => m[j].pc # "sleep"

\* Goroutine i can take its next step: each service has a goroutine of its
\* own, which nothing but the end of the process holds back.
Scheduled(alive, m, i) == alive

\* MemberLoopDecision returning the error once the context is canceled.
MemberLoopDecision_StopsOnCancel(o, m, ctxDone) ==
    IF ctxDone /\ m.out.err # NilErr
    THEN [ret |-> TRUE, err |-> m.out.err, gc |-> m.gc, delay |-> 0, why |-> "canceled"]
    ELSE LoopDecision(o, m.gc, 0, m.out)

\* The loop body of a member after runOnce returned: ctx.Done() is not
\* consulted.
MemberLoopDecision(o, m, ctxDone) == LoopDecision(o, m.gc, 0, m.out)

\* ctx.Done() of the context the services run in.
Done == parentDone \/ groupDone

\* What Init, Run and Close of a member do.  A service returns
\* context.Canceled only when its context is canceled.
MemberInitReturns ==
    {Ret("nil"), Ret("initErr"), Panic("boom")}
        \cup (IF Done THEN {Ret("canceled")} ELSE {})
MemberRunReturns ==
    {Ret("nil"), Ret("runErr"), Panic("boom")}
        \cup (IF Done THEN {Ret("canceled")} ELSE {})
MemberCloseReturns == {Ret("nil"), Ret("closeErr"), Panic("boom")}

\* errors.Is(err, context.Canceled) on an error of the supervisor.
IsErrCanceled(err) == err # NilErr /\ IsCanceled(err.cause)

\* RecordErr keeping the error of the last goroutine that failed.
RecordErr_LastWins(recorded, err) == IF err # NilErr THEN err ELSE recorded

\* The errgroup's errOnce: the first non-nil error is kept.
RecordErr(recorded, err) == IF recorded = NilErr THEN err ELSE recorded

\* CancelsOn canceling the context at every return.
CancelsOn_AnyReturn(err) == TRUE

\* The errgroup cancels its context when a goroutine returns a non-nil error.
CancelsOn(err) == err # NilErr

\* WaitDone satisfied by the first goroutine that returns.
WaitDone_AnyReturned(m) == \E i \in DOMAIN m : m[i].pc = "done"

\* errGroup.Wait() returns once every goroutine has returned.
WaitDone(m) == \A i \in DOMAIN m : m[i].pc = "done"

\* GroupResult letting a failed shutdown replace the result.
GroupResult_ShutdownErr(err, shutdownErr) ==
    IF shutdownErr # "nil" THEN Wrap("OTEL shutdown failed", shutdownErr) ELSE err

\* What RunGroupC returns after the deferred shutdown: the error of Wait.
GroupResult(err, shutdownErr) == err

\* RunGroupAndExitC after RunGroupC returned err.
ExitDecision(err) ==
    [print |-> err # NilErr /\ ~IsErrCanceled(err),
     exit  |-> err # NilErr]

\* OtelInitResult going on whatever initOtel returned.
OtelInitResult_Ignored(initErr) == NilErr

\* RunGroupC after initOtel returned initErr: the error it returns, nil
\* when it goes on.
OtelInitResult(initErr) ==
    IF initErr # "nil" THEN Wrap("OTEL initialization failed", initErr) ELSE NilErr

\* RunGroupC (possibly from RunGroupAndExitC) is called.
GroupInit ==
    /\ opts \in GroupOptionsSet
    /\ pc = "group"
    /\ now = 0
    /\ graceStart = 0
    /\ graceCount = 0
    /\ att = NoAttempt
    /\ out = NoOutcome
    /\ delay = 0
    /\ why = "start"
    /\ result = NilErr
    /\ stats = NoStats
    /\ svcs \in SeqsUpTo(Identities, MaxServices)
    /\ parentCtx \in ParentCtxs
    /\ osEnviron \in GroupEnvirons
    /\ gpc = "start"
    /\ GroupFresh
    /\ ein = NoEnvIn
    /\ EnvFresh
    /\ StructFresh

lvars == <<opts, pc, now, graceStart, graceCount, att, out, delay, why, result, stats>>

\* RunGroupC up to errGroup.Wait(): the empty list, validateServices,
\* initOtel and one goroutine per service.
RunGroupC ==
    /\ gpc = "start"
    /\ LET v == validateServices(svcs) IN
       IF IsEmptyGroup(svcs)
       THEN /\ gpc' = "returned"
            /\ gresult' = NilErr
            /\ UNCHANGED <<mem, verrs, otel>>
       ELSE IF v.err # NilErr
       THEN /\ gpc' = "returned"
            /\ gresult' = v.err
            /\ verrs' = v.errs
            /\ UNCHANGED <<mem, otel>>
       ELSE \E initErr \in {"nil", "otelErr"} :
            LET e == OtelInitResult(initErr) IN
            /\ otel' = (IF initErr = "nil" THEN "ok" ELSE "failed")
            /\ IF e = NilErr
               THEN /\ mem' = [i \in 1 .. Len(svcs) |->
                                  StartMember(svcs, i, parentCtx, opts, osEnviron)]
                    /\ gpc' = "waiting"
                    /\ UNCHANGED <<verrs, gresult>>
               ELSE /\ gpc' = "returned"
                    /\ gresult' = e
                    /\ UNCHANGED <<mem, verrs>>
    /\ UNCHANGED <<svcs, parentCtx, osEnviron, parentDone, groupDone, gerr, order, shutdowns, hookErr,
                   anyCall, printed, exited>>
    /\ UNCHANGED lvars
    /\ UNCHANGED evars
    /\ UNCHANGED svars

\* The step of a member's runOnce after a lifecycle call: a panic that is
\* not recovered ends the process.
MemberStep(i, a, runVal) ==
    /\ mem' = [mem EXCEPT ![i] =
                 [@ EXCEPT !.pc = (IF a.next = "return" THEN "decide"
                                   ELSE IF a.next = "panic" THEN "panicked"
                                   ELSE a.next),
                           !.out = a.out,
                           !.run = runVal,
                           !.seen = @ \cup {Observed(mem[i].ctx)}]]
    /\ gpc' = (IF a.next = "panic" THEN "crashed" ELSE gpc)
    /\ anyCall' = TRUE
    /\ UNCHANGED <<svcs, parentCtx, osEnviron, parentDone, groupDone, gerr, order, verrs, otel,
                   shutdowns, hookErr, gresult, printed, exited>>
    /\ UNCHANGED lvars
    /\ UNCHANGED evars
    /\ UNCHANGED svars

\* Member i's runOnce calls svc.Init.
MemberInit(i) ==
    /\ Scheduled(gpc = "waiting", mem, i)
    /\ mem[i].pc = "init"
    /\ \E r \in MemberInitReturns : MemberStep(i, AfterInit(mem[i].opts, r), mem[i].run)

\* Member i's runOnce calls svc.Run.
MemberRun(i) ==
    /\ Scheduled(gpc = "waiting", mem, i)
    /\ mem[i].pc = "run"
    /\ \E r \in MemberRunReturns : MemberStep(i, AfterRun(mem[i].opts, r), r.val)

\* Member i's runOnce calls svc.Close.
MemberClose(i) ==
    /\ Scheduled(gpc = "waiting", mem, i)
    /\ mem[i].pc = "close"
    /\ \E r \in MemberCloseReturns :
         MemberStep(i, AfterClose(mem[i].opts, r, mem[i].run), mem[i].run)

\* Member i's runOnce has returned: the loop body, and when runLoop returns
\* the errgroup's bookkeeping for the goroutine.
MemberDecide(i) ==
    /\ Scheduled(gpc = "waiting", mem, i)
    /\ mem[i].pc = "decide"
    /\ LET d == MemberLoopDecision(mem[i].opts, mem[i], Done) IN
       IF d.ret
       THEN /\ mem' = [mem EXCEPT ![i] = [@ EXCEPT !.pc = "done", !.gc = d.gc,
                                                     !.res = d.err]]
            /\ gerr' = RecordErr(gerr, d.err)
            /\ groupDone' = (groupDone \/ CancelsOn(d.err))
            /\ order' = Append(order, i)
       ELSE /\ mem' = [mem EXCEPT ![i] =
                         [@ EXCEPT !.pc = (IF d.delay > 0 THEN "sleep" ELSE "init"),
                                   !.run = "none",
                                   !.out = (IF d.delay > 0 THEN @ ELSE NoOutcome),
                                   !.gc = d.gc]]
            /\ UNCHANGED <<gerr, groupDone, order>>
    /\ UNCHANGED <<svcs, parentCtx, osEnviron, gpc, parentDone, verrs, otel, shutdowns, hookErr,
                   gresult, anyCall, printed, exited>>
    /\ UNCHANGED lvars
    /\ UNCHANGED evars
    /\ UNCHANGED svars

\* time.Sleep(restartDelay) of member i returns and the loop starts the next
\* attempt.
MemberSleep(i) ==
    /\ Scheduled(gpc = "waiting", mem, i)
    /\ mem[i].pc = "sleep"
    /\ mem' = [mem EXCEPT ![i] = [@ EXCEPT !.pc = "init", !.out = NoOutcome]]
    /\ UNCHANGED <<svcs, parentCtx, osEnviron, gpc, parentDone, groupDone, gerr, order, verrs,
                   otel, shutdowns, hookErr, gresult, anyCall, printed, exited>>
    /\ UNCHANGED lvars
    /\ UNCHANGED evars
    /\ UNCHANGED svars

\* The caller cancels the context it passed in.
ParentCancel ==
    /\ gpc = "waiting"
    /\ ~parentDone
    /\ parentDone' = TRUE
    /\ UNCHANGED <<svcs, parentCtx, osEnviron, gpc, mem, groupDone, gerr, order, verrs, otel,
                   shutdowns, hookErr, gresult, anyCall, printed, exited>>
    /\ UNCHANGED lvars
    /\ UNCHANGED evars
    /\ UNCHANGED svars

\* errGroup.Wait() returns, the deferred shutdown hook runs and RunGroupC
\* returns.
Wait ==
    /\ gpc = "waiting"
    /\ WaitDone(mem)
    /\ groupDone' = TRUE
    /\ \E shutdownErr \in {"nil", "shutdownErr"} :
        /\ hookErr' = shutdownErr
        /\ gresult' = GroupResult(gerr, shutdownErr)
    /\ shutdowns' = shutdowns + 1
    /\ gpc' = "returned"
    /\ UNCHANGED <<svcs, parentCtx, osEnviron, mem, parentDone, gerr, order, verrs, otel, anyCall,
                   printed, exited>>
    /\ UNCHANGED lvars
    /\ UNCHANGED evars
    /\ UNCHANGED svars

\* RunGroupAndExitC after RunGroupC returned.
RunGroupAndExitC ==
    /\ gpc = "returned"
    /\ LET d == ExitDecision(gresult) IN
        /\ printed' = d.print
        /\ exited' = d.exit
    /\ gpc' = "finished"
    /\ UNCHANGED <<svcs, parentCtx, osEnviron, mem, parentDone, groupDone, gerr, order, verrs, otel,
                   shutdowns, hookErr, gresult, anyCall>>
    /\ UNCHANGED lvars
    /\ UNCHANGED evars
    /\ UNCHANGED svars

GroupNext ==
    \/ RunGroupC
    \/ \E i \in DOMAIN mem : MemberInit(i)
    \/ \E i \in DOMAIN mem : MemberRun(i)
    \/ \E i \in DOMAIN mem : MemberClose(i)
    \/ \E i \in DOMAIN mem : MemberDecide(i)
    \/ \E i \in DOMAIN mem : MemberSleep(i)
    \/ ParentCancel
    \/ Wait
    \/ RunGroupAndExitC

GroupSpec == GroupInit /\ [][GroupNext]_vars

\* ------------------------------------------------------------------------
\* Vocabulary of the group properties
\* ------------------------------------------------------------------------

\* RunGroupC has been called and has gone past its checks.
Started == gpc # "start"

\* RunGroupC has returned to its caller.
Returned == gpc \in {"returned", "finished"}

\* Service j has the identity of a service before it in the list.
EqualsEarlier(j) == \E i \in 1 .. (j - 1) : svcs[i] = svcs[j]

HasDuplicate == \E j \in 1 .. Len(svcs) : EqualsEarlier(j)

\* How many entries of the aggregate are e.
Entries(e) == Cardinality({k \in 1 .. Len(verrs) : verrs[k] = e})

\* The members that have returned with an error, by position in order.
Failures == {k \in 1 .. Len(order) : mem[order[k]].res # NilErr}

\* The error of the member that failed first, nil when none failed.
FirstFailure ==
    IF Failures = {} THEN NilErr
    ELSE mem[order[CHOOSE k \in Failures : \A j \in Failures : k <= j]].res

\* C12: when two services of the list share (name, namespace), RunGroupC
\* returns a validation error and nothing has been started: initOtel has
\* not been called, no goroutine exists and no lifecycle method has been
\* called.
C12_DuplicateStartsNothing ==
    (HasDuplicate /\ Started)
        => /\ Returned
           /\ gresult = [msg |-> "invalid service group", cause |-> "many",
                         related |-> "nil"]
           /\ Entries("duplicate service identity") >= 1
           /\ otel = "none"
           /\ mem = <<>>
           /\ ~anyCall
           /\ shutdowns = 0

C12_Witness ==
    /\ gpc = "returned"
    /\ svcs = << [name |-> "a", namespace |-> "b"], [name |-> "a", namespace |-> "b"] >>
    /\ verrs = << "duplicate service identity" >>

\* C13 as stated: the aggregate has one entry for every service equal to an
\* earlier one, one for every service whose name is empty and one for every
\* service whose namespace is empty.
C13_EntryForEveryViolation ==
    (Started /\ svcs # <<>>)
        => /\ Entries("duplicate service identity")
                = Cardinality({j \in 1 .. Len(svcs) : EqualsEarlier(j)})
           /\ Entries("service name cannot be empty")
                = Cardinality({j \in 1 .. Len(svcs) : svcs[j].name = ""})
           /\ Entries("service namespace cannot be empty")
                = Cardinality({j \in 1 .. Len(svcs) : svcs[j].namespace = ""})

\* C13: validateServices reports in one aggregate an entry for every service
\* equal to an earlier one and, for every service that is not equal to an
\* earlier one, an entry when its name is empty and an entry when its
\* namespace is empty; the aggregate is nil exactly when there is no entry.
C13_EntryForEveryDuplicateAndFirstEmpty ==
    (Started /\ svcs # <<>>)
        => /\ Entries("duplicate service identity")
                = Cardinality({j \in 1 .. Len(svcs) : EqualsEarlier(j)})
           /\ Entries("service name cannot be empty")
                = Cardinality({j \in 1 .. Len(svcs) :
                                 ~EqualsEarlier(j) /\ svcs[j].name = ""})
           /\ Entries("service namespace cannot be empty")
                = Cardinality({j \in 1 .. Len(svcs) :
                                 ~EqualsEarlier(j) /\ svcs[j].namespace = ""})
           /\ Len(verrs) = Entries("duplicate service identity")
                             + Entries("service name cannot be empty")
                             + Entries("service namespace cannot be empty")
           /\ (verrs # <<>>) => (Returned /\ gresult.cause = "many" /\ mem = <<>>)

C13_Witness ==
    /\ gpc = "returned"
    /\ Len(svcs) = 3
    /\ \E j \in 1 .. Len(svcs) : EqualsEarlier(j) /\ svcs[j].name = ""
    /\ Entries("duplicate service identity") = 1
    /\ Entries("service name cannot be empty") = 2
    /\ Entries("service namespace cannot be empty") = 1

\* C14 as stated: the group fails fast.  Once a member's loop has returned a
\* non-nil error while RunGroupC is in Wait, RunGroupC can return without
\* any sibling loop returning first.
C14_GroupFailsFast ==
    (gpc = "waiting" /\ Failures # {}) => ENABLED Wait

\* C15 as stated: what RunGroupC returns is what the member that returned
\* first returned, nil included.
C15_ResultOfFirstToTerminate ==
    (Returned /\ order # <<>>) => gresult = mem[order[1]].res

\* C15: what RunGroupC returns from Wait is the error of the member that was
\* first to return a non-nil error, and nil when every member returned nil;
\* it returns once every member has returned.
C15_ResultIsFirstFailure ==
    (Returned /\ mem # <<>>)
        => /\ \A i \in DOMAIN mem : mem[i].pc = "done"
           /\ Len(order) = Len(mem)
           /\ gresult = FirstFailure
           /\ (gresult = NilErr) <=> (\A i \in DOMAIN mem : mem[i].res = NilErr)

C15_Witness ==
    /\ gpc = "returned"
    /\ Len(order) = 2
    /\ mem[order[1]].res = NilErr
    /\ mem[order[2]].res # NilErr
    /\ gresult = mem[order[2]].res

\* C16 as stated: once any member has returned, with an error or with nil,
\* the shared context is canceled.
C16_AnyReturnCancels ==
    (\E i \in DOMAIN mem : mem[i].pc = "done") => Done

\* C16: the step in which a member's loop returns cancels the shared
\* context exactly when the loop returned a non-nil error; a member that
\* returns nil leaves the context as it was.  While RunGroupC is in Wait the
\* errgroup's context is canceled if and only if some member has failed.
C16_FailureCancels ==
    [][ /\ \A i \in DOMAIN mem :
             (mem[i].pc # "done" /\ mem'[i].pc = "done")
                 => /\ (mem'[i].res # NilErr) => groupDone'
                    /\ (mem'[i].res = NilErr) => (groupDone' = groupDone)
        /\ (gpc' = "waiting") => (groupDone' <=> (Failures # {})') ]_vars

C16_Witness ==
    /\ gpc = "waiting"
    /\ Len(order) = 1
    /\ mem[order[1]].res # NilErr
    /\ groupDone
    /\ ~parentDone
    /\ \E i \in DOMAIN mem : mem[i].pc = "run"

\* C17: when several members return non-nil errors, RunGroupC returns
\* exactly one of them, that of the member that returned first; the later
\* ones are dropped, and no member that has an error to return is ever held
\* back: its return is always possible.
C17_FirstErrorWins ==
    /\ (Returned /\ Cardinality(Failures) >= 2)
          => /\ gresult = mem[order[CHOOSE k \in Failures :
                                      \A j \in Failures : k <= j]].res
             /\ gerr = gresult
    /\ \A i \in DOMAIN mem :
          (gpc = "waiting" /\ mem[i].pc = "decide") => ENABLED MemberDecide(i)

C17_Witness ==
    /\ gpc = "returned"
    /\ Len(order) = 2
    /\ mem[order[1]].res = Wrap("service run failed", "runErr")
    /\ mem[order[2]].res = Wrap("service initialization failed", "initErr")
    /\ gresult = Wrap("service run failed", "runErr")

\* C19 as stated: RunGroupAndExitC calls ae.Exit only when the final error
\* is non-nil and is not a context cancellation; with a nil result it just
\* returns, and with context.Canceled it neither prints nor calls ae.Exit.
C19_ExitOnlyOnRealError ==
    (gpc = "finished")
        => /\ exited <=> (gresult # NilErr /\ ~IsErrCanceled(gresult))
           /\ (gresult = NilErr) => (~printed /\ ~exited)
           /\ IsErrCanceled(gresult) => (~printed /\ ~exited)

\* C20: when initOtel succeeded, the shutdown hook has been called exactly
\* once by the time RunGroupC returns and not at all before every member
\* loop has returned; what RunGroupC returns is the error the members
\* produced, whether the hook failed or not.  Without a successful initOtel
\* the hook is never called.
C20_ShutdownOnceAfterAllMembers ==
    /\ (otel = "ok" /\ Returned)
          => /\ shutdowns = 1
             /\ hookErr \in {"nil", "shutdownErr"}
             /\ gresult = FirstFailure
    /\ (shutdowns > 0) => (otel = "ok" /\ \A i \in DOMAIN mem : mem[i].pc = "done")
    /\ (otel = "ok" /\ ~Returned) => (shutdowns = 0 /\ hookErr = "none")

C20_Witness ==
    /\ gpc = "returned"
    /\ otel = "ok"
    /\ shutdowns = 1
    /\ hookErr = "shutdownErr"
    /\ Len(order) = 2
    /\ gresult = NilErr

\* ------------------------------------------------------------------------
\* Properties of the loop, continued
\* ------------------------------------------------------------------------

\* The options put no ceiling on restarts after an error.
NoCeiling == opts.RestartOnError /\ opts.GraceCount = 0 /\ opts.GracePeriod = 0

\* C22: zero means no ceiling.  With GraceCount=0 the loop never ends on the
\* grace count and with GracePeriod=0 never on the grace period; with both
\* zero and RestartOnError=true every attempt whose Init returned an error
\* is followed by another attempt, however many came before and however
\* much time has passed, so runLoop never returns after such an attempt.
C22_ZeroMeansNoCeiling ==
    [][ /\ (opts.GraceCount = 0) => why' # "grace count"
        /\ (opts.GracePeriod = 0) => why' # "grace period"
        /\ (NoCeiling /\ pc = "decide" /\ InitFailed)
             => /\ Restarts
                /\ result' = NilErr
        /\ (NoCeiling /\ InitFailed) => pc' \notin {"done", "panicked"} ]_vars

C22_Witness ==
    /\ NoCeiling
    /\ pc = "init"
    /\ stats.attempts = MaxCount
    /\ stats.initErrs = MaxCount
    /\ stats.runCalls = 0
    /\ stats.panics = 0
    /\ graceCount = MaxCount
    /\ now = MaxTime

\* The delay the options give for the failure being handled.
ChosenDelay ==
    IF AttemptPanicked /\ opts.RestartOnPanicDelay > 0
    THEN opts.RestartOnPanicDelay
    ELSE opts.RestartOnErrorDelay

\* C26: when the loop restarts, the delay is RestartOnPanicDelay after a
\* recovered panic with RestartOnPanicDelay > 0 and RestartOnErrorDelay in
\* every other case; the loop sleeps for it exactly when it is positive and
\* otherwise starts the next attempt at once.
C26_RestartDelayChoice ==
    [][ /\ (pc = "decide" /\ Restarts)
             => IF ChosenDelay > 0
                THEN pc' = "sleep" /\ delay' = ChosenDelay /\ stats' = stats
                ELSE pc' = "init" /\ now' = now /\ att' = NoAttempt
        /\ (pc = "sleep" /\ pc' = "init")
             => /\ delay > 0
                /\ now' = (IF now + delay < MaxTime THEN now + delay ELSE MaxTime) ]_vars

C26_Witness ==
    /\ pc = "sleep"
    /\ AttemptPanicked
    /\ opts.RestartOnErrorDelay = 1
    /\ opts.RestartOnPanicDelay = 2
    /\ delay = 2

\* C27: a successful attempt ends supervision.  When Init returned nil and
\* Run returned nil the attempt goes on to Close, and once Close has
\* returned runLoop returns nil at that pass; after that the loop takes no
\* step.  This holds for every option setting and after any number of failed
\* attempts.
C27_SuccessEndsSupervision ==
    [][ /\ (pc = "run" /\ att'.run = Ret("nil")) => (pc' = "close" /\ att'.close = NoCall)
        /\ (pc = "decide" /\ att.init = Ret("nil") /\ att.run = Ret("nil") /\ CloseReturned)
             => /\ pc' = "done"
                /\ result' = NilErr
                /\ stats' = stats
        /\ (pc = "done") => (pc' = "done" /\ att' = att /\ stats' = stats) ]_vars

C27_Witness ==
    /\ pc = "done"
    /\ att.init = Ret("nil")
    /\ att.run = Ret("nil")
    /\ att.close = Ret("nil")
    /\ stats.attempts = 3
    /\ stats.closeCalls = 1
    /\ result = NilErr

\* C28: when Init returns an error the attempt ends there: Run and Close
\* are not called in it, and runOnce returns the wrapped initialization
\* error, neither internal nor a panic; with RestartOnError=true and both
\* grace budgets unexhausted the loop restarts.
C28_InitErrorAbortsAttempt ==
    [][ /\ (pc = "init" /\ att'.init = Ret("initErr"))
             => /\ pc' = "decide"
                /\ out' = [err |-> [msg |-> "service initialization failed",
                                    cause |-> "initErr", related |-> "nil"],
                           isInternal |-> FALSE, isPanic |-> FALSE]
        /\ (pc = "decide" /\ InitFailed)
             => /\ att.run = NoCall
                /\ att.close = NoCall
                /\ (opts.RestartOnError /\ PeriodLeft /\ CountLeft) => Restarts ]_vars

C28_Witness ==
    /\ pc = "init"
    /\ stats.attempts = 3
    /\ stats.initErrs = 2
    /\ stats.runCalls = 0
    /\ stats.closeCalls = 0
    /\ stats.panics = 0

\* One of the cases in which a failure may leave runLoop.
MayLeaveLoop ==
    \/ RunFailed
    \/ ~opts.RestartOnError
    \/ AttemptPanicked /\ ~opts.RestartOnPanic
    \/ ~PeriodLeft
    \/ ~CountLeft

\* C29: runLoop returns a non-nil error only after a failed attempt that is
\* a fatal Run error, a failure with restart disabled (RestartOnError=false,
\* or a recovered panic with RestartOnPanic=false) or a failure with the
\* grace period or the grace count exceeded, and the error is that
\* attempt's; after every other failed attempt the loop restarts.
C29_OnlyListedErrorsLeaveLoop ==
    [][ /\ (pc # "done" /\ pc' = "done" /\ result' # NilErr)
             => /\ pc = "decide"
                /\ AttemptFailed
                /\ MayLeaveLoop
                /\ IsAttemptError(result')
        /\ (pc = "decide" /\ AttemptFailed /\ ~MayLeaveLoop) => Restarts ]_vars

C29_Witness ==
    /\ pc = "done"
    /\ result # NilErr
    /\ opts.RestartOnError
    /\ InitFailed
    /\ opts.GraceCount = 1
    /\ graceCount = 2
    /\ stats.attempts = 2

\* C30: with RecoverPanic=true a panic in Init, Run or Close never leaves
\* runOnce: the attempt returns a panic error carrying the panic value, with
\* isPanic set and isInternal unset.  A panic in Close after Run ended
\* cleanly is such a failure, and with restarts enabled and both grace
\* budgets unexhausted it is followed by another attempt.
C30_PanicRecoveredInEveryCall ==
    [][ /\ opts.RecoverPanic => pc' # "panicked"
        /\ (opts.RecoverPanic /\ pc = "decide" /\ AttemptPanicked)
             => /\ out.isPanic
                /\ ~out.isInternal
                /\ out.err.msg = "panic"
                /\ out.err.cause = PanicValue
        /\ ( /\ pc = "decide"
             /\ opts.RecoverPanic
             /\ att.close.panic
             /\ RunEndedCleanly
             /\ opts.RestartOnError
             /\ opts.RestartOnPanic
             /\ PeriodLeft
             /\ CountLeft )
             => Restarts ]_vars

C30_Witness ==
    /\ pc = "init"
    /\ opts.RecoverPanic
    /\ stats.attempts = 2
    /\ stats.initCalls = 1
    /\ stats.runCalls = 1
    /\ stats.closeCalls = 1
    /\ stats.panics = 1

\* C21: when initOtel fails, RunGroupC returns that error wrapped and has
\* started nothing: no goroutine exists, no lifecycle method of any service
\* has been called and the shutdown hook has not been called.
C21_OtelFailureStartsNothing ==
    (otel = "failed")
        => /\ Returned
           /\ gresult = [msg |-> "OTEL initialization failed", cause |-> "otelErr",
                         related |-> "nil"]
           /\ mem = <<>>
           /\ order = <<>>
           /\ ~anyCall
           /\ shutdowns = 0
           /\ hookErr = "none"

C21_Witness ==
    /\ gpc = "finished"
    /\ otel = "failed"
    /\ Len(svcs) = 2
    /\ verrs = <<>>
    /\ exited

\* ------------------------------------------------------------------------
\* The process environment: GetEnv, LookupEnv and the helper calls
\* ------------------------------------------------------------------------

\* The value of the process environment variable n, when it is set.
ValueOf(n) == n \o <<"-", "e">>

\* os.LookupEnv(n) in the environment environ (the names that are set).
OsLookupEnv(environ, n) ==
    IF n \in environ THEN [val |-> ValueOf(n), ok |-> TRUE]
    ELSE [val |-> <<>>, ok |-> FALSE]

\* os.Getenv(n)
OsGetenv(environ, n) == OsLookupEnv(environ, n).val

\* GetEnv(ctx, key) with EnvPrefix(ctx) = prefix.
GetEnv(environ, prefix, key) == OsGetenv(environ, NormalizeEnvKey(prefix \o key))

\* LookupEnv(ctx, key) with EnvPrefix(ctx) = prefix.
LookupEnv(environ, prefix, key) ==
    LET r == OsLookupEnv(environ, prefix \o key) IN
    [val |-> NormalizeEnvKey(r.val), ok |-> r.ok]

\* "my-Énv.key"
ExampleKey == <<"m", "y", "-", "E+acute", "n", "v", ".", "k", "e", "y">>

\* The strings NormalizeEnvKey is called with.
KeyStrings == SeqsUpTo(EnvChars, MaxLen) \cup {ExampleKey, <<"e", "-", "o/", "acute", "_", "7">>}

\* The calls of NormalizeEnvKey.
NormalizeInputs == {[NoEnvIn EXCEPT !.op = "NormalizeEnvKey", !.key = k] : k \in KeyStrings}

\* The process environments of the applyOptions calls: RESTART_ON_ERROR may
\* be set under the prefix E_ or under no prefix.
ApplyEnvirons ==
    {{}, {OptionVar(<<"E", "_">>, "RESTART_ON_ERROR", FALSE)},
         {OptionVar(<<>>, "RESTART_ON_ERROR", TRUE)}}

\* The calls of applyOptions: name, namespace, what the Option funcs left in
\* EnvPrefix, DisableEnvPrefix and RestartOnError, and the environment.
ApplyInputs ==
    {[NoEnvIn EXCEPT !.op = "applyOptions", !.name = n, !.namespace = ns,
                     !.EnvPrefix = p, !.DisableEnvPrefix = d,
                     !.RestartOnError = roe, !.optEnviron = env] :
        n \in {<<"e">>, <<"e+acute", "-", "K">>, <<"-">>},
        ns \in {<<>>, <<"K">>, <<"7", "_">>},
        p \in {<<>>, <<"e", "-">>, <<"K", "_">>},
        d \in BOOLEAN,
        roe \in BOOLEAN,
        env \in ApplyEnvirons}

\* The names a process environment may hold.
EnvNames == {<<"K", "_", "E">>, <<"K", "_", "e">>, <<"E">>, <<"e">>, <<"K", "E">>}

\* The calls of GetEnv and LookupEnv.
LookupInputs ==
    {[NoEnvIn EXCEPT !.op = "GetEnv", !.prefix = p, !.key = k, !.environ = env] :
        p \in {<<>>, <<"K", "_">>},
        k \in {<<"e">>, <<"E">>},
        env \in SUBSET EnvNames}

EnvInit ==
    /\ opts \in {o \in GroupOptionsSet : ~o.RestartOnError /\ ~o.RecoverPanic}
    /\ pc = "env"
    /\ now = 0
    /\ graceStart = 0
    /\ graceCount = 0
    /\ att = NoAttempt
    /\ out = NoOutcome
    /\ delay = 0
    /\ why = "start"
    /\ result = NilErr
    /\ stats = NoStats
    /\ svcs = <<>>
    /\ parentCtx = EmptyCtx
    /\ osEnviron = {}
    /\ gpc = "idle"
    /\ GroupFresh
    /\ ein \in NormalizeInputs \cup ApplyInputs \cup LookupInputs
    /\ EnvFresh
    /\ StructFresh

\* NormalizeEnvKey(ein.key) is called.
DoNormalizeEnvKey ==
    /\ ein.op = "NormalizeEnvKey"
    /\ edone = {}
    /\ eout' = [eout EXCEPT !.val = NormalizeEnvKey(ein.key)]
    /\ edone' = {"NormalizeEnvKey"}
    /\ UNCHANGED <<ein, lvars, gvars, svars>>

\* applyOptions resolves the options and runLoop stores the prefix in the
\* context the service is called with.
DoApplyOptions ==
    /\ ein.op = "applyOptions"
    /\ edone = {}
    /\ LET resolved ==
             applyOptions(ein.name, ein.namespace,
                          [RestartOnError |-> ein.RestartOnError,
                           EnvPrefix |-> ein.EnvPrefix,
                           DisableEnvPrefix |-> ein.DisableEnvPrefix],
                          ein.optEnviron)
       IN eout' = [eout EXCEPT !.val = resolved.EnvPrefix,
                               !.ctx = EnvPrefix(resolved.EnvPrefix),
                               !.restartOnError = resolved.RestartOnError]
    /\ edone' = {"applyOptions"}
    /\ UNCHANGED <<ein, lvars, gvars, svars>>

\* GetEnv(ctx, ein.key) is called.
DoGetEnv ==
    /\ ein.op = "GetEnv"
    /\ "GetEnv" \notin edone
    /\ eout' = [eout EXCEPT !.get = GetEnv(ein.environ, ein.prefix, ein.key)]
    /\ edone' = edone \cup {"GetEnv"}
    /\ UNCHANGED <<ein, lvars, gvars, svars>>

\* LookupEnv(ctx, ein.key) is called.
DoLookupEnv ==
    /\ ein.op = "GetEnv"
    /\ "LookupEnv" \notin edone
    /\ eout' = [eout EXCEPT !.look = LookupEnv(ein.environ, ein.prefix, ein.key)]
    /\ edone' = edone \cup {"LookupEnv"}
    /\ UNCHANGED <<ein, lvars, gvars, svars>>

EnvNext == DoNormalizeEnvKey \/ DoApplyOptions \/ DoGetEnv \/ DoLookupEnv

EnvSpec == EnvInit /\ [][EnvNext]_vars

\* ------------------------------------------------------------------------
\* Properties of the environment helpers
\* ------------------------------------------------------------------------

\* The reference normalization, pass by pass.  The base letter of a letter,
\* accented or not, uppercased:
RefLetter ==
    ("e" :> "E") @@ ("E" :> "E") @@ ("e+acute" :> "E") @@ ("E+acute" :> "E")
      @@ ("k" :> "K") @@ ("K" :> "K") @@ ("m" :> "M") @@ ("M" :> "M")
      @@ ("n" :> "N") @@ ("N" :> "N") @@ ("v" :> "V") @@ ("V" :> "V")
      @@ ("y" :> "Y") @@ ("Y" :> "Y") @@ ("a" :> "A") @@ ("A" :> "A")
      @@ ("b" :> "B") @@ ("B" :> "B") @@ ("c" :> "C") @@ ("C" :> "C")

RefAlnum(c) == c \in DOMAIN RefLetter \/ c = "7"

\* Accents dropped, letters folded and uppercased, digits kept, every other
\* character turned into an underscore.
RefMapped(str) ==
    LET kept == SelectSeq(str, LAMBDA c : c # "acute") IN
    [i \in 1 .. Len(kept) |->
        IF kept[i] \in DOMAIN RefLetter THEN RefLetter[kept[i]]
        ELSE IF kept[i] = "7" THEN "7" ELSE "_"]

\* The positions that survive: every letter and digit, and the first
\* underscore of a run that has a letter or digit on both sides.
RefKept(m) ==
    {i \in 1 .. Len(m) :
        \/ m[i] # "_"
        \/ /\ i > 1 /\ m[i - 1] # "_"
           /\ \E j \in (i + 1) .. Len(m) : m[j] # "_"}

RefNormalize(str) ==
    LET m == RefMapped(str)
        I == RefKept(m)
    IN [k \in 1 .. Cardinality(I) |->
          m[CHOOSE i \in I : Cardinality({j \in I : j <= i}) = k]]

\* C24: NormalizeEnvKey returns the reference normalization of its input:
\* the result has only characters of [A-Z0-9_], no leading, trailing or
\* doubled underscore, "my-Énv.key" gives "MY_ENV_KEY", and an input without
\* a letter or digit gives the empty string.
C24_NormalizeMatchesReference ==
    ("NormalizeEnvKey" \in edone)
        => LET r == eout.val IN
           /\ r = RefNormalize(ein.key)
           /\ \A i \in 1 .. Len(r) : r[i] \in UpperLetters \cup AsciiDigits \cup {"_"}
           /\ r # <<>> => (r[1] # "_" /\ r[Len(r)] # "_")
           /\ \A i \in 1 .. (Len(r) - 1) : ~(r[i] = "_" /\ r[i + 1] = "_")
           /\ (ein.key = ExampleKey)
                => r = <<"M", "Y", "_", "E", "N", "V", "_", "K", "E", "Y">>
           /\ (\A i \in 1 .. Len(ein.key) : ~RefAlnum(ein.key[i])) => r = <<>>

C24_Witness ==
    /\ "NormalizeEnvKey" \in edone
    /\ ein.key = <<"e+acute", "-", "_">>
    /\ eout.val = <<"E">>

\* C23 as stated: the prefix applyOptions resolves is, with
\* DisableEnvPrefix=false and no explicit prefix, NormalizeEnvKey of
\* namespace_name_ (namespace part omitted when empty) followed by one
\* underscore; with DisableEnvPrefix=true it is the empty string; and it is
\* what EnvPrefix(ctx) returns to the service.
C23_EnvPrefixResolution ==
    ("applyOptions" \in edone)
        => /\ (~ein.DisableEnvPrefix /\ ein.EnvPrefix = <<>>)
                => eout.val =
                     NormalizeEnvKey((IF ein.namespace # <<>>
                                      THEN ein.namespace \o <<"_">> ELSE <<>>)
                                         \o ein.name \o <<"_">>) \o <<"_">>
           /\ ein.DisableEnvPrefix => eout.val = <<>>
           /\ eout.ctx = eout.val

\* C25 as stated: GetEnv and LookupEnv both read the variable named
\* NormalizeEnvKey(prefix + key); LookupEnv reports it present exactly when
\* it is set, and both return its value unmodified.
C25_SameKeyForGetAndLookup ==
    ({"GetEnv", "LookupEnv"} \subseteq edone)
        => LET n == NormalizeEnvKey(ein.prefix \o ein.key) IN
           /\ eout.look.ok <=> (n \in ein.environ)
           /\ eout.get = (IF n \in ein.environ THEN ValueOf(n) ELSE <<>>)
           /\ eout.look.val = eout.get

\* ------------------------------------------------------------------------
\* Properties of the loop: panics, cancellation kinds, tags, accounting
\* ------------------------------------------------------------------------

\* The lifecycle call made in this step panicked.
CallPanics ==
    \/ pc = "init" /\ att'.init.panic
    \/ pc = "run" /\ att'.run.panic
    \/ pc = "close" /\ att'.close.panic

\* C31: with RecoverPanic=false a panic of Init, Run or Close leaves runOnce
\* and runLoop as a panic: runOnce has no outcome, graceCount is untouched,
\* and runLoop takes no further step: no restart and no Close call.
C31_UnrecoveredPanicPropagates ==
    [][ /\ (~opts.RecoverPanic /\ CallPanics)
             => /\ pc' = "panicked"
                /\ out' = NoOutcome
                /\ graceCount' = graceCount
                /\ result' = NilErr
        /\ (pc = "panicked")
             => /\ pc' = "panicked"
                /\ att' = att
                /\ stats' = stats
                /\ graceCount' = graceCount ]_vars

C31_Witness ==
    /\ pc = "panicked"
    /\ ~opts.RecoverPanic
    /\ att.run = Panic("boom")
    /\ att.close = NoCall
    /\ stats.attempts = 2
    /\ graceCount = 1

\* C32 as stated: whichever error of the context Run returns,
\* context.Canceled or context.DeadlineExceeded, the attempt goes on to
\* Close and is a clean stop.
C32_EveryContextErrorIsCleanStop ==
    [][ (pc = "run" /\ att'.run \in {Ret("canceled"), Ret("deadline")})
           => (pc' = "close" /\ out' = NoOutcome) ]_vars

\* C32: context.Canceled returned by Run is swallowed: Close is called and
\* the attempt, once Close has returned, is a clean stop.
\* context.DeadlineExceeded is not: the attempt ends at once, without Close,
\* as an internal "service run failed" error, which ends the loop.
C32_OnlyCanceledIsCleanStop ==
    [][ /\ (pc = "run" /\ att'.run = Ret("canceled"))
             => (pc' = "close" /\ out' = NoOutcome)
        /\ (pc = "close" /\ att.run = Ret("canceled") /\ ~att'.close.panic
              /\ att'.close # NoCall)
             => (pc' = "decide" /\ out' = NoOutcome)
        /\ (pc = "run" /\ att'.run = Ret("deadline"))
             => /\ pc' = "decide"
                /\ out' = [err |-> [msg |-> "service run failed",
                                    cause |-> "deadline", related |-> "nil"],
                           isInternal |-> TRUE, isPanic |-> FALSE]
        /\ (pc = "decide" /\ att.run = Ret("deadline"))
             => (att.close = NoCall /\ pc' = "done" /\ result' = out.err) ]_vars

C32_Witness ==
    /\ pc = "done"
    /\ att.run = Ret("deadline")
    /\ att.close = NoCall
    /\ opts.RestartOnError
    /\ result.msg = "service run failed"
    /\ result.cause = "deadline"

\* C35: the tags of runOnce's outcome follow the failing phase: isInternal
\* exactly when Run returned a non-cancellation error, isPanic exactly when
\* a panic was recovered, both false after an Init error and with a nil
\* error, and never both true.
C35_OutcomeTagsExclusive ==
    (pc \in {"decide", "sleep", "done"})
        => /\ out.isInternal <=> RunFailed
           /\ out.isPanic <=> AttemptPanicked
           /\ InitFailed => (~out.isInternal /\ ~out.isPanic)
           /\ (out.err = NilErr) => (~out.isInternal /\ ~out.isPanic)
           /\ ~(out.isInternal /\ out.isPanic)
           /\ (out.err = NilErr) <=> ~AttemptFailed

C35_Witness ==
    /\ pc = "decide"
    /\ att.run = Ret("canceled")
    /\ att.close = Panic("bang")
    /\ out.isPanic
    /\ ~out.isInternal
    /\ out.err.related = "canceled"

\* The failed attempts the loop body has dealt with so far.
FailedHandled ==
    IF pc = "sleep" THEN stats.attempts
    ELSE IF pc = "done" /\ result # NilErr THEN stats.attempts
    ELSE stats.attempts - 1

\* The failed attempts that got past the test isInternal || !RestartOnError.
FailedCounted ==
    IF pc = "done" /\ result # NilErr /\ (RunFailed \/ ~opts.RestartOnError)
    THEN stats.attempts - 1
    ELSE FailedHandled

\* The attempt counter has not saturated.
CountsExact == stats.attempts < MaxCount

\* C37 as stated: graceCount equals the number of failed attempts handled
\* so far, and the attempts started are at most graceCount+1, hence at most
\* GraceCount+1 when GraceCount>0.
C37_GraceCountIsFailuresHandled ==
    CountsExact
        => /\ graceCount = FailedHandled
           /\ stats.attempts <= graceCount + 1
           /\ (opts.GraceCount > 0) => stats.attempts <= opts.GraceCount + 1

\* C37: graceCount equals the number of failed attempts that got past the
\* test isInternal || !RestartOnError (a failure that ends the loop at that
\* test is not counted); it never decreases and is never reset; the
\* attempts started are at most graceCount+1, hence at most GraceCount+1
\* when GraceCount>0.
C37_GraceCountIsFailuresCounted ==
    [][ /\ CountsExact'
             => /\ graceCount' = FailedCounted'
                /\ stats'.attempts <= graceCount' + 1
                /\ (opts.GraceCount > 0) => stats'.attempts <= opts.GraceCount + 1
        /\ graceCount' >= graceCount
        /\ stats'.attempts >= stats.attempts ]_vars

C37_Witness ==
    /\ pc = "done"
    /\ opts.RestartOnError
    /\ RunErrored
    /\ stats.attempts = 2
    /\ stats.initErrs = 1
    /\ graceCount = 1

\* ------------------------------------------------------------------------
\* Properties of the group: empty list, sleeping members, contexts
\* ------------------------------------------------------------------------

\* C38: RunGroupC with an empty list of services returns nil at once: no
\* validation entry, no initOtel call, no goroutine, no lifecycle call and
\* no shutdown hook call; RunGroupAndExitC then neither prints nor exits.
C38_EmptyGroupReturnsNil ==
    (svcs = <<>> /\ Started)
        => /\ Returned
           /\ gresult = NilErr
           /\ verrs = <<>>
           /\ otel = "none"
           /\ mem = <<>>
           /\ order = <<>>
           /\ ~anyCall
           /\ shutdowns = 0
           /\ hookErr = "none"
           /\ ~groupDone
           /\ ~printed
           /\ ~exited

C38_Witness ==
    /\ svcs = <<>>
    /\ gpc = "finished"
    /\ gresult = NilErr
    /\ otel = "none"

\* C33: while a member of a running group is in its restart delay, every
\* other member can take the step it is at: call Init, Run or Close, handle
\* the outcome of its attempt (and so terminate), or end its own delay.
C33_SleepBlocksOnlyItsOwnLoop ==
    \A i \in DOMAIN mem : \A j \in DOMAIN mem :
        (gpc = "waiting" /\ i # j /\ mem[i].pc = "sleep")
            => /\ (mem[j].pc = "init") => ENABLED MemberInit(j)
               /\ (mem[j].pc = "run") => ENABLED MemberRun(j)
               /\ (mem[j].pc = "close") => ENABLED MemberClose(j)
               /\ (mem[j].pc = "decide") => ENABLED MemberDecide(j)
               /\ (mem[j].pc = "sleep") => ENABLED MemberSleep(j)
               /\ (mem[i].pc = "sleep") => ENABLED MemberSleep(i)

C33_Witness ==
    /\ gpc = "waiting"
    /\ Len(mem) = 2
    /\ mem[1].pc = "sleep"
    /\ mem[2].pc = "close"
    /\ mem[2].gc = 1
    /\ ~Done

\* The failure member i is handling leaves it a restart: it is no internal
\* error, restarts are enabled for it and the grace count is not used up.
MemberMayRestart(i) ==
    /\ mem[i].pc = "decide"
    /\ mem[i].out.err # NilErr
    /\ ~mem[i].out.isInternal
    /\ mem[i].opts.RestartOnError
    /\ mem[i].out.isPanic => mem[i].opts.RestartOnPanic
    /\ mem[i].gc < mem[i].opts.GraceCount

\* The delay of the restart after member i's failure.
MemberDelay(i) ==
    IF mem[i].out.isPanic /\ mem[i].opts.RestartOnPanicDelay > 0
    THEN mem[i].opts.RestartOnPanicDelay
    ELSE mem[i].opts.RestartOnErrorDelay

\* C36: after the context is canceled, a member handling a failure that
\* leaves it a restart is restarted all the same, after the restart delay
\* when there is one; a delay entered ends in a new attempt only; and
\* RunGroupC returns only when every member's loop has returned.
C36_RestartIgnoresCancellation ==
    [][ /\ \A i \in DOMAIN mem :
            /\ (gpc = "waiting" /\ Done /\ MemberMayRestart(i) /\ mem'[i] # mem[i])
                 => /\ mem'[i].pc = (IF MemberDelay(i) > 0 THEN "sleep" ELSE "init")
                    /\ mem'[i].gc = mem[i].gc + 1
                    /\ order' = order
                    /\ gpc' = "waiting"
            /\ (gpc = "waiting" /\ mem[i].pc = "sleep" /\ mem'[i] # mem[i])
                 => (mem'[i].pc = "init" /\ gpc' = "waiting")
        /\ (gpc = "waiting" /\ gpc' = "returned")
             => \A i \in DOMAIN mem : mem[i].pc = "done" ]_vars

C36_Witness ==
    /\ gpc = "waiting"
    /\ Len(mem) = 2
    /\ Done
    /\ mem[1].pc = "sleep"
    /\ mem[1].out.err.cause = "canceled"
    /\ mem[1].gc = 1
    /\ mem[2].pc = "done"

\* The letters of the group's names in upper case.
UpperOf == ("a" :> "A") @@ ("b" :> "B") @@ ("c" :> "C")

\* What a service with a name and a namespace is to read from its context.
OwnIdentity(svc) ==
    [name |-> svc.name, namespace |-> svc.namespace,
     envPrefix |-> <<UpperOf[svc.namespace], "_", UpperOf[svc.name], "_">>]

\* C34: every Init, Run and Close call of a service, in the first attempt
\* and in every retry, reads its own name, namespace and resolved prefix
\* from the context, whatever the caller's context carries, and never the
\* identity of another service of the group.
C34_OwnContextInEveryCall ==
    \A i \in DOMAIN mem :
        /\ mem[i].seen \subseteq {OwnIdentity(svcs[i])}
        /\ (mem[i].pc # "init" \/ mem[i].gc > 0) => mem[i].seen # {}
        /\ \A j \in DOMAIN mem : \A o \in mem[i].seen :
              (j # i) => [name |-> o.name, namespace |-> o.namespace] # svcs[j]

C34_Witness ==
    /\ Len(mem) = 2
    /\ parentCtx.name = "outer"
    /\ mem[1].gc = 1
    /\ mem[1].pc = "close"
    /\ mem[2].seen # {}
    /\ mem[1].seen = {[name |-> "c", namespace |-> "b",
                       envPrefix |-> <<"B", "_", "C", "_">>]}

\* ------------------------------------------------------------------------
\* The struct-based variant: RunC calls on one Service value
\* ------------------------------------------------------------------------

\* Most RunC calls made on the Service value.
MaxCallers == 2

\* graceCount := 1
FirstGraceCount == 1

\* Name and Version of the Service value; "" is the field left unset.
ServiceValues == [Name : {"", "a"}, Version : {"", "1"}]

\* The options of the calls: restarts are immediate and the grace period is
\* off, so the grace count alone bounds the restarts.
StructOptionsSet ==
    {o \in OptionsSet :
        /\ o.RestartOnErrorDelay = 0
        /\ o.RestartOnPanicDelay = 0
        /\ o.GracePeriod = 0}

\* validate(): the panic it raises, "none" when it returns.
validate(s) ==
    IF s.Name = "" THEN "service name must be set"
    ELSE IF s.Version = "" THEN "service version must be set"
    ELSE "none"

\* AlreadyRunning never finding the flag set.
AlreadyRunning_Never(flag) == FALSE

\* s.running.Swap(true): the value the flag had.
AlreadyRunning(flag) == flag

\* ae.MsgC(ctx, "already running")
AlreadyRunningErr == [msg |-> "already running", cause |-> "nil", related |-> "nil"]

\* The functions a caller reaches RunC through: RunC itself (also behind
\* Run), or RunToCompletionC (also behind RunToCompletion).
EntryPoints == {"RunC", "RunToCompletionC"}

\* A RunC call that has not been made yet.  via: the function the caller
\* called; hooked: the call has invoked InitFunc, RunFunc or ShutdownFunc.
NoCallYet ==
    [pc |-> "idle", via |-> "none", gc |-> 0, out |-> NoOutcome, attempts |-> 0,
     hooked |-> FALSE, res |-> NilErr]

\* RunToCompletionC after RunC returned err: ae.Print unless the error is
\* context.Canceled, ae.Exit for every error.
CompletionDecision(err) ==
    [print |-> err # NilErr /\ ~IsErrCanceled(err),
     exit  |-> err # NilErr]

\* s.init after initOtel returned otelErr and, when it was called, InitFunc
\* returned or panicked with r.
StructAfterInit(o, otelErr, r) ==
    IF otelErr # "nil"
    THEN [next |-> "return",
          out |-> Outcome(Wrap("service initialization failed", otelErr), TRUE, FALSE)]
    ELSE IF r.panic THEN Recovered(o, r.val, "nil")
    ELSE IF r.val # "nil"
    THEN [next |-> "return",
          out |-> Outcome(Wrap("service initialization failed", r.val), FALSE, FALSE)]
    ELSE [next |-> "run", out |-> NoOutcome]

\* s.run after RunFunc returned or panicked with r.
StructAfterRun(o, r) ==
    IF r.panic THEN Recovered(o, r.val, "nil")
    ELSE IF r.val # "nil"
    THEN [next |-> "return", out |-> Outcome(Wrap("service failed", r.val), FALSE, FALSE)]
    ELSE [next |-> "shutdown", out |-> NoOutcome]

\* s.shutdown after ShutdownFunc returned or panicked with r: its error is
\* logged only.
StructAfterShutdown(o, r) ==
    IF r.panic THEN Recovered(o, r.val, "nil")
    ELSE [next |-> "return", out |-> NoOutcome]

\* The process has been ended by a panic nobody recovered.
Crashed == \E c \in DOMAIN calls : calls[c].pc = "panicked"

\* The process has ended: by such a panic, or by ae.Exit.
Ended == Crashed \/ exited

\* One Service value, and callers about to call RunC on it.  Every hook of
\* the Service is set.
StructInit ==
    /\ opts \in StructOptionsSet
    /\ pc = "struct"
    /\ now = 0
    /\ graceStart = 0
    /\ graceCount = 0
    /\ att = NoAttempt
    /\ out = NoOutcome
    /\ delay = 0
    /\ why = "start"
    /\ result = NilErr
    /\ stats = NoStats
    /\ svcs = <<>>
    /\ parentCtx = EmptyCtx
    /\ osEnviron = {}
    /\ gpc = "idle"
    /\ GroupFresh
    /\ ein = NoEnvIn
    /\ EnvFresh
    /\ service \in ServiceValues
    /\ running = FALSE
    /\ calls = [c \in 1 .. MaxCallers |-> NoCallYet]
    /\ entered = <<>>

\* Caller c calls RunC, directly or through RunToCompletionC: validate, then
\* runLoop up to the first runOnce.
RunC(c) ==
    /\ ~Ended
    /\ calls[c].pc = "idle"
    /\ \E via \in EntryPoints :
       IF validate(service) # "none"
       THEN /\ calls' = [calls EXCEPT ![c] = [@ EXCEPT !.pc = "panicked", !.via = via]]
            /\ UNCHANGED <<running, entered>>
       ELSE /\ running' = TRUE
            /\ entered' = Append(entered, c)
            /\ calls' = [calls EXCEPT ![c] =
                 IF AlreadyRunning(running)
                 THEN [@ EXCEPT !.pc = "done", !.via = via, !.res = AlreadyRunningErr]
                 ELSE [@ EXCEPT !.pc = "init", !.via = via, !.gc = FirstGraceCount,
                                !.attempts = 1]]
    /\ UNCHANGED service
    /\ UNCHANGED <<lvars, gvars, evars>>

\* The step of caller c's runOnce after a hook: a panic that is not
\* recovered ends the process.
StructStep(c, a, invoked) ==
    /\ calls' = [calls EXCEPT ![c] =
                   [@ EXCEPT !.pc = (IF a.next = "return" THEN "decide"
                                     ELSE IF a.next = "panic" THEN "panicked"
                                     ELSE a.next),
                             !.out = a.out,
                             !.hooked = @ \/ invoked]]
    /\ UNCHANGED <<service, running, entered>>
    /\ UNCHANGED <<lvars, gvars, evars>>

\* Caller c's runOnce calls s.init: initOtel, then InitFunc.
StructDoInit(c) ==
    /\ ~Ended
    /\ calls[c].pc = "init"
    /\ \/ StructStep(c, StructAfterInit(opts, "otelErr", NoCall), FALSE)
       \/ \E r \in InitReturns : StructStep(c, StructAfterInit(opts, "nil", r), TRUE)

\* Caller c's runOnce calls s.run: RunFunc.
StructDoRun(c) ==
    /\ ~Ended
    /\ calls[c].pc = "run"
    /\ \E r \in RunReturns : StructStep(c, StructAfterRun(opts, r), TRUE)

\* Caller c's runOnce calls s.shutdown: ShutdownFunc and the OTEL shutdown.
StructDoShutdown(c) ==
    /\ ~Ended
    /\ calls[c].pc = "shutdown"
    /\ \E r \in CloseReturns : StructStep(c, StructAfterShutdown(opts, r), TRUE)

\* Caller c's runOnce has returned: the loop body.
StructDecide(c) ==
    /\ ~Ended
    /\ calls[c].pc = "decide"
    /\ LET d == LoopDecision(opts, calls[c].gc, 0, calls[c].out) IN
       calls' = [calls EXCEPT ![c] =
          IF d.ret
          THEN [@ EXCEPT !.pc = "done", !.gc = d.gc, !.res = d.err]
          ELSE [@ EXCEPT !.pc = "init", !.gc = d.gc, !.out = NoOutcome,
                         !.attempts = Inc(@)]]
    /\ UNCHANGED <<service, running, entered>>
    /\ UNCHANGED <<lvars, gvars, evars>>

\* RunC has returned to RunToCompletionC in caller c: the error is printed
\* and the process exited, or RunToCompletionC returns.
RunToCompletionC(c) ==
    /\ ~Ended
    /\ calls[c].pc = "done"
    /\ calls[c].via = "RunToCompletionC"
    /\ LET d == CompletionDecision(calls[c].res) IN
        /\ printed' = (printed \/ d.print)
        /\ exited' = d.exit
    /\ calls' = [calls EXCEPT ![c] = [@ EXCEPT !.pc = "finished"]]
    /\ UNCHANGED <<service, running, entered>>
    /\ UNCHANGED <<svcs, parentCtx, osEnviron, gpc, mem, parentDone, groupDone, gerr, order,
                   verrs, otel, shutdowns, hookErr, gresult, anyCall>>
    /\ UNCHANGED <<lvars, evars>>

StructNext ==
    \/ \E c \in DOMAIN calls : RunC(c)
    \/ \E c \in DOMAIN calls : RunToCompletionC(c)
    \/ \E c \in DOMAIN calls : StructDoInit(c)
    \/ \E c \in DOMAIN calls : StructDoRun(c)
    \/ \E c \in DOMAIN calls : StructDoShutdown(c)
    \/ \E c \in DOMAIN calls : StructDecide(c)

StructSpec == StructInit /\ [][StructNext]_vars

\* ------------------------------------------------------------------------
\* Properties of the struct-based variant
\* ------------------------------------------------------------------------

\* Caller c has got as far as the running flag.
Entered(c) == \E k \in DOMAIN entered : entered[k] = c

\* C39: of all the RunC calls on one Service value, concurrent or one after
\* the other, only the first to reach the running flag runs a supervision
\* loop and invokes InitFunc, RunFunc or ShutdownFunc; every other call
\* returns the "already running" error without invoking a hook, also after
\* the first call has returned.
C39_OneLoopPerService ==
    \A c \in DOMAIN calls :
        /\ (calls[c].pc \in {"init", "run", "shutdown", "decide"} \/ calls[c].hooked
              \/ calls[c].attempts > 0)
             => (entered # <<>> /\ c = entered[1])
        /\ (Entered(c) /\ c # entered[1])
             => /\ calls[c].pc \in {"done", "finished"}
                /\ calls[c].res = AlreadyRunningErr
                /\ ~calls[c].hooked
        /\ (Entered(c) /\ c = entered[1]) => calls[c].res # AlreadyRunningErr
        /\ Entered(c) => running

C39_Witness ==
    /\ Len(entered) = 2
    /\ calls[entered[1]].pc = "done"
    /\ calls[entered[1]].hooked
    /\ calls[entered[1]].res = NilErr
    /\ calls[entered[2]].pc = "finished"
    /\ calls[entered[2]].res = AlreadyRunningErr
    /\ printed
    /\ exited

\* C40 as stated: with RestartOnError=true, GraceCount=N>0 and the grace
\* period off, a loop that returns the error of a failed attempt that
\* restarts were enabled for has made N+1 attempts.
C40_GraceCountAllowsNRestarts ==
    \A c \in DOMAIN calls :
        ( /\ calls[c].pc \in {"done", "finished"}
          /\ calls[c].res # NilErr
          /\ calls[c].res # AlreadyRunningErr
          /\ opts.RestartOnError
          /\ opts.GraceCount > 0
          /\ ~calls[c].out.isInternal
          /\ calls[c].out.isPanic => opts.RestartOnPanic )
        => calls[c].attempts = opts.GraceCount + 1

====
